---- MODULE Spec2Model ----
(***************************************************************************)
(* Function Cloud (FC): the token store and the Google OAuth flow of      *)
(* function_cloud/auth/__init__.py, the first-call deployment wrapper of   *)
(* function_cloud/core.py with the deployer and URL manager it drives,     *)
(* and the dependency analysis of function_cloud/dependency_analyzer.py.   *)
(*                                                                         *)
(* Strings that the code cuts and joins (module paths, URL paths, URLs)    *)
(* are sequences of string segments; "." is a segment of its own, so that  *)
(* str.replace('.', '-') is a map over the segments.                       *)
(***************************************************************************)
EXTENDS Integers, Sequences, FiniteSets, TLC

(* ------------------------------ bounds -------------------------------- *)

\* Token records the store may hold.
MaxTokens == 2

\* Clock readings: the clock advances in steps of ClockStep, this many times.
MaxClockTicks == 3

(* ------------------------- auth: token store --------------------------- *)

VARIABLES
    tokensFile,   \* tokens.json: [exists, records], records in insertion order
    now,          \* time.time(), in seconds
    everIssued,   \* every value secrets.token_hex(32) has returned
    everIds,      \* every value uuid.uuid4() has returned
    revoked,      \* tokens for which revoke_token has returned True
    lastOp        \* the last FCAuth call: [op, token, result, at]

authVars == <<tokensFile, now, everIssued, everIds, revoked, lastOp>>

\* 30 * 24 * 60 * 60 seconds: the lifetime _save_token gives a token.
TokenLifetime == 30 * 24 * 60 * 60

\* Half a lifetime: two steps after a record's second clock reading the
\* clock equals its expires_at, three steps after it is past it.
ClockStep == 15 * 24 * 60 * 60

\* Values secrets.token_hex(32) may return, and values callers may present.
TokenPool == {"tokA", "tokB", "tokC"}

\* Values uuid.uuid4() may return.
IdPool == {"id1", "id2", "id3"}

NoOp == [op |-> "none", token |-> "-", result |-> FALSE, at |-> 0]

\* _load_tokens: {} when the file does not exist, else its JSON object.
_load_tokens(file) ==
    IF ~file.exists THEN <<>> ELSE file.records

\* The record _save_token builds: created_at and expires_at come from two
\* separate readings t1 <= t2 of the clock.
token_record(token, token_id, t1, t2) ==
    [id |-> token_id, token |-> token, created_at |-> t1,
     expires_at |-> t2 + TokenLifetime, active |-> TRUE]

\* Mutant: the lifetime is not added to expires_at.
_save_token_no_lifetime(file, token, token_id, t1, t2) ==
    [exists |-> TRUE,
     records |-> Append(_load_tokens(file),
                        [token_record(token, token_id, t1, t2)
                            EXCEPT !.expires_at = t2])]

\* Mutant: the new record is written alone, without the loaded ones.
_save_token_alone(file, token, token_id, t1, t2) ==
    [exists |-> TRUE, records |-> <<token_record(token, token_id, t1, t2)>>]

\* _save_token: load, add the record under token_id, write the file.
_save_token(file, token, token_id, t1, t2) ==
    [exists |-> TRUE,
     records |-> Append(_load_tokens(file), token_record(token, token_id, t1, t2))]

\* The loop of validate_token from record i on: True at the first record
\* that matches, is active and expires after t.
RECURSIVE scan_tokens(_, _, _, _)
scan_tokens(records, i, token, t) ==
    IF i > Len(records) THEN FALSE
    ELSE IF records[i].token = token /\ records[i].active
            /\ records[i].expires_at > t
         THEN TRUE
         ELSE scan_tokens(records, i + 1, token, t)

\* Mutant: a record that expires exactly now still validates.
validate_token_inclusive(file, token, t) ==
    \E i \in 1..Len(_load_tokens(file)) :
        /\ _load_tokens(file)[i].token = token
        /\ _load_tokens(file)[i].active
        /\ _load_tokens(file)[i].expires_at >= t

\* Mutant: the active flag of the record is not looked at.
validate_token_ignores_active(file, token, t) ==
    \E i \in 1..Len(_load_tokens(file)) :
        /\ _load_tokens(file)[i].token = token
        /\ _load_tokens(file)[i].expires_at > t

\* validate_token at clock reading t.
validate_token(file, token, t) ==
    scan_tokens(_load_tokens(file), 1, token, t)

\* The loop of revoke_token: the index of the first record with this token
\* value, 0 when there is none.
RECURSIVE find_token(_, _, _)
find_token(records, i, token) ==
    IF i > Len(records) THEN 0
    ELSE IF records[i].token = token THEN i
         ELSE find_token(records, i + 1, token)

\* Mutant: reports the revocation without clearing the active flag.
revoke_token_keeps_active(file, token) ==
    [found |-> find_token(_load_tokens(file), 1, token) # 0, file |-> file]

\* Mutant: removes the record instead of clearing its flag.
revoke_token_deletes(file, token) ==
    LET records == _load_tokens(file)
        i == find_token(records, 1, token)
    IN  IF i = 0 THEN [found |-> FALSE, file |-> file]
        ELSE [found |-> TRUE,
              file |-> [exists |-> TRUE,
                        records |-> SubSeq(records, 1, i - 1)
                                    \o SubSeq(records, i + 1, Len(records))]]

\* Mutant: only a record that is still active counts as a match.
revoke_token_active_only(file, token) ==
    LET records == _load_tokens(file)
        hits == {i \in 1..Len(records) :
                    records[i].token = token /\ records[i].active}
    IN  IF hits = {} THEN [found |-> FALSE, file |-> file]
        ELSE LET i == CHOOSE k \in hits : \A j \in hits : k <= j
             IN  [found |-> TRUE,
                  file |-> [exists |-> TRUE,
                            records |-> [records EXCEPT ![i].active = FALSE]]]

\* revoke_token: the first matching record gets active = False and the file
\* is written; nothing is written when no record matches.
revoke_token(file, token) ==
    LET records == _load_tokens(file)
        i == find_token(records, 1, token)
    IN  IF i = 0 THEN [found |-> FALSE, file |-> file]
        ELSE [found |-> TRUE,
              file |-> [exists |-> TRUE,
                        records |-> [records EXCEPT ![i].active = FALSE]]]

InitTokens ==
    /\ tokensFile = [exists |-> FALSE, records |-> <<>>]
    /\ now = 0
    /\ everIssued = {}
    /\ everIds = {}
    /\ revoked = {}
    /\ lastOp = NoOp

\* generate_token: a token and a record id that were never drawn before
\* (which unused id uuid4 returns makes no difference to any call: ids are
\* only keys); the clock may advance between the two readings of _save_token.
GenerateToken ==
    /\ Len(_load_tokens(tokensFile)) < MaxTokens
    /\ IdPool \ everIds # {}
    /\ \E token \in TokenPool \ everIssued, d \in {0, ClockStep} :
        LET token_id == CHOOSE id \in IdPool \ everIds : TRUE
        IN
        /\ now + d <= MaxClockTicks * ClockStep
        /\ tokensFile' = _save_token(tokensFile, token, token_id, now, now + d)
        /\ now' = now + d
        /\ everIssued' = everIssued \cup {token}
        /\ everIds' = everIds \cup {token_id}
        /\ lastOp' = [op |-> "generate", token |-> token, result |-> TRUE,
                      at |-> now + d]
    /\ UNCHANGED revoked

\* Mutant: a tokens file that is missing is created, empty.
tokens_file_after_load_created(file) ==
    [exists |-> TRUE, records |-> _load_tokens(file)]

\* The tokens file after _load_tokens: it is opened for reading when it
\* exists and not touched when it does not.
tokens_file_after_load(file) == file

ValidateToken ==
    /\ \E token \in TokenPool :
        lastOp' = [op |-> "validate", token |-> token,
                   result |-> validate_token(tokensFile, token, now), at |-> now]
    /\ tokensFile' = tokens_file_after_load(tokensFile)
    /\ UNCHANGED <<now, everIssued, everIds, revoked>>

RevokeToken ==
    /\ \E token \in TokenPool :
        LET r == revoke_token(tokensFile, token)
        IN  /\ tokensFile' = r.file
            /\ revoked' = IF r.found THEN revoked \cup {token} ELSE revoked
            /\ lastOp' = [op |-> "revoke", token |-> token, result |-> r.found,
                          at |-> now]
    /\ UNCHANGED <<now, everIssued, everIds>>

Tick ==
    /\ now + ClockStep <= MaxClockTicks * ClockStep
    /\ now' = now + ClockStep
    /\ UNCHANGED <<tokensFile, everIssued, everIds, revoked, lastOp>>

(* --------------- deployment: wrapper, deployer, URL manager ------------ *)

VARIABLES
    func,        \* the function object handed to FC.function / FC.endpoint
    HAS_MODAL,   \* deployer.HAS_MODAL, set when the module is imported
    stub_name,   \* FCConfig.stub_name
    attrs,       \* the _fc_deployed, _fc_url, _fc_modal_func attributes of func
    calls,       \* how many times each step has run
    lastCall,    \* the last invocation of the wrapper
    lastGet,     \* the last get_url() call
    urlLog       \* what get_url() gave when called after an invocation

deployVars ==
    <<func, HAS_MODAL, stub_name, attrs, calls, lastCall, lastGet, urlLog>>

\* Invocations of the wrapper in one run.
MaxCalls == 3

\* Python values the wrapped functions return.
IntValue(n) == [tag |-> "int", int |-> n, message |-> <<>>]
DictValue(message) == [tag |-> "dict", int |-> 0, message |-> message]
NoValue == [tag |-> "none", int |-> 0, message |-> <<>>]

\* Function objects. srcKind: "toplevel" (inspect.getsource gives text that
\* ast.parse accepts), "indented" (a method or nested def: getsource gives
\* indented text, which ast.parse rejects), "none" (getsource raises).
AddFunc ==
    [name |-> "add", module |-> <<"__main__">>, source |-> "src_add",
     srcKind |-> "toplevel", endpoint |-> FALSE, body |-> "sum"]
GreetFunc ==
    [name |-> "greet", module |-> <<"myapp", ".", "api">>, source |-> "src_greet",
     srcKind |-> "toplevel", endpoint |-> TRUE, body |-> "greet"]
MethodFunc ==
    [name |-> "increment", module |-> <<"__main__">>, source |-> "src_increment",
     srcKind |-> "indented", endpoint |-> FALSE, body |-> "sum"]
DynFunc ==
    [name |-> "dyn", module |-> <<"__main__">>, source |-> "src_none",
     srcKind |-> "none", endpoint |-> FALSE, body |-> "sum"]

Functions == {AddFunc, GreetFunc, MethodFunc, DynFunc}

\* Arguments callers pass.
ArgsOf(f) ==
    IF f.body = "sum" THEN {<<a, b>> : a \in 1..2, b \in 1..2}
    ELSE {<<"World">>, <<"Ada">>}

\* The wrapped function itself: add(a, b) = a + b, greet(name) = the message.
Body(f, args) ==
    IF f.body = "sum" THEN IntValue(args[1] + args[2])
    ELSE DictValue(<<"Hello, ", args[1], "!">>)

\* hashlib.md5(text).hexdigest()[:8] on the source texts of the model.
MD5_8(text) ==
    CASE text = "src_add" -> "md5_add"
      [] text = "src_greet" -> "md5_greet"
      [] text = "src_increment" -> "md5_increment"
      [] text = "src_endpoint_func" -> "md5_endpoint_func"
      [] OTHER -> "md5_other"

\* Hashes of str(time.time()) + "_" + four random digits.
RandomHashes == {"md5_rnd1", "md5_rnd2"}

\* The import statements of each source text.
ImportsOf(text) ==
    CASE text = "src_greet" -> {"requests"}
      [] OTHER -> {}

RECURSIVE SetToSeq(_)
SetToSeq(S) ==
    IF S = {} THEN <<>>
    ELSE LET x == CHOOSE y \in S : TRUE IN <<x>> \o SetToSeq(S \ {x})

\* analyze_imports: inspect.getsource raises OSError without source text,
\* ast.parse raises IndentationError on indented text.
analyze_imports(f) ==
    IF f.srcKind = "toplevel"
    THEN [raised |-> FALSE, imports |-> ImportsOf(f.source)]
    ELSE [raised |-> TRUE, imports |-> {}]

NoneVal == "None"

\* The values of a parsed JSON list: strings, numbers and null, each with
\* the text str() gives for it.
Str(text) == [type |-> "str", text |-> text]
Num(text) == [type |-> "int", text |-> text]
Null == [type |-> "NoneType", text |-> NoneVal]

\* What the enrichment provider's answer lists: entries may be null.
LLMPackages == <<Str("requests==2.31.0"), Null, Str("numpy")>>

\* An answer that names a package twice and gives a number for another.
LLMDuplicates == <<Str("numpy"), Num("3"), Str("numpy")>>

\* What the enrichment provider's answer holds: no "{...}" at all, a
\* "{...}" that is not JSON, a JSON object without "packages", one whose
\* "packages" is a string, one with a "packages" list, one whose lists name
\* an entry twice.
Responses ==
    {"no_json", "bad_json", "json_no_packages", "json_packages_not_list",
     "json_packages", "json_duplicates"}

\* json.loads of the "{...}" of the answer: whether it has "packages" and
\* whether that is a list, and its other fields.
Answer(response) ==
    CASE response = "json_packages" ->
            [has_packages |-> TRUE, is_list |-> TRUE, packages |-> LLMPackages,
             system_dependencies |-> <<Str("libpq-dev"), Null>>,
             python_version |-> "3.11"]
      [] response = "json_duplicates" ->
            [has_packages |-> TRUE, is_list |-> TRUE,
             packages |-> LLMDuplicates,
             system_dependencies |-> <<Str("git"), Str("git")>>,
             python_version |-> "3.11"]
      [] response = "json_packages_not_list" ->
            [has_packages |-> TRUE, is_list |-> FALSE,
             packages |-> <<Str("requests numpy")>>,
             system_dependencies |-> <<Str("git")>>,
             python_version |-> "3.9"]
      [] OTHER ->
            [has_packages |-> FALSE, is_list |-> FALSE, packages |-> <<>>,
             system_dependencies |-> <<Str("libpq-dev")>>,
             python_version |-> "3.11"]

\* [str(x) for x in values if x is not None], as Python strings.
RECURSIVE strings_without_none(_)
strings_without_none(values) ==
    IF values = <<>> THEN <<>>
    ELSE IF Head(values) = Null THEN strings_without_none(Tail(values))
    ELSE <<Head(values).text>> \o strings_without_none(Tail(values))

\* {"packages": packages}: the keys create_modal_function reads with a
\* default are given as that default.
PackagesOnly(packages) ==
    [packages |-> packages, system_dependencies |-> <<>>,
     python_version |-> "3.10"]

NoManifest ==
    [packages |-> <<>>, system_dependencies |-> <<>>, python_version |-> ""]

\* Mutant: an answer without a "packages" list is dropped whole.
enhance_with_llm_drops_answer(f, imports, llm) ==
    LET static == [raised |-> FALSE,
                   manifest |-> PackagesOnly(SetToSeq(imports))]
        result == Answer(llm.response)
    IN  IF ~llm.enabled THEN static
        ELSE IF f.srcKind = "none"
        THEN [raised |-> TRUE, manifest |-> NoManifest]
        ELSE IF ~llm.api_key THEN static
        ELSE IF ~(llm.provider = "groq" /\ llm.has_groq) THEN static
        ELSE IF llm.client = "throws" \/ llm.call = "throws" THEN static
        ELSE IF llm.response \in {"no_json", "bad_json"} THEN static
        ELSE IF result.has_packages /\ result.is_list
        THEN [raised |-> FALSE,
              manifest |-> [packages |-> strings_without_none(result.packages),
                            system_dependencies |-> result.system_dependencies,
                            python_version |-> result.python_version]]
        ELSE static

\* FCConfig.llm_enabled, whether FCConfig.llm_api_key is set,
\* FCConfig.llm_provider, HAS_GROQ, and the provider's behaviour: whether
\* groq.Client(...) and client.chat.completions.create(...) raise, and the
\* text of the answer.
LlmSettings ==
    [enabled : BOOLEAN, api_key : BOOLEAN, provider : {"groq", "openai"},
     has_groq : BOOLEAN, client : {"ok", "throws"}, call : {"ok", "throws"},
     response : Responses]

\* FCConfig as the class defines it, with a provider that answers.
DefaultLlm ==
    [enabled |-> TRUE, api_key |-> FALSE, provider |-> "groq",
     has_groq |-> TRUE, client |-> "ok", call |-> "ok",
     response |-> "json_packages"]

\* One setting for each way through enhance_with_llm: what the call never
\* looks at is as in the setting that gets furthest.
LlmEnvs ==
    {l \in LlmSettings :
        LET furthest == [DefaultLlm EXCEPT !.api_key = TRUE]
        IN  \/ l = [furthest EXCEPT !.enabled = FALSE]
            \/ l = [furthest EXCEPT !.api_key = FALSE]
            \/ l = [furthest EXCEPT !.provider = "openai"]
            \/ l = [furthest EXCEPT !.has_groq = FALSE]
            \/ l = [furthest EXCEPT !.client = "throws"]
            \/ l = [furthest EXCEPT !.call = "throws"]
            \/ \E r \in Responses : l = [furthest EXCEPT !.response = r]}

\* enhance_with_llm: {"packages": list(imports)} when enrichment is off;
\* then inspect.getsource(func), outside every try; then the static
\* packages again without an API key, without the groq provider, or when the
\* client, the request or the parsing of the answer raises, or the answer
\* holds no "{...}"; else the parsed answer, its "packages" with the null
\* entries dropped, or the imports when it has no "packages" list.
enhance_with_llm(f, imports, llm) ==
    LET static == [raised |-> FALSE,
                   manifest |-> PackagesOnly(SetToSeq(imports))]
        result == Answer(llm.response)
    IN  IF ~llm.enabled THEN static
        ELSE IF f.srcKind = "none"
        THEN [raised |-> TRUE, manifest |-> NoManifest]
        ELSE IF ~llm.api_key THEN static
        ELSE IF ~(llm.provider = "groq" /\ llm.has_groq) THEN static
        ELSE IF llm.client = "throws" \/ llm.call = "throws" THEN static
        ELSE IF llm.response \in {"no_json", "bad_json"} THEN static
        ELSE [raised |-> FALSE,
              manifest |->
                  [packages |-> IF result.has_packages /\ result.is_list
                                THEN strings_without_none(result.packages)
                                ELSE SetToSeq(imports),
                   system_dependencies |-> result.system_dependencies,
                   python_version |-> result.python_version]]

NoHandle ==
    [kind |-> "none", has_wrapped |-> FALSE, name |-> "", module |-> <<>>,
     source |-> "src_none", srcKind |-> "none", has_url |-> FALSE, url |-> <<>>]

\* modal_func: functools.wraps(func) copies __name__ and __module__ and sets
\* __wrapped__ = func.
ModalFunc(f) ==
    [kind |-> "modal_func", has_wrapped |-> TRUE, name |-> f.name,
     module |-> f.module, source |-> f.source, srcKind |-> f.srcKind,
     has_url |-> FALSE, url |-> <<>>]

\* endpoint_func: a plain nested def of deployer.py, with no __wrapped__.
EndpointFunc ==
    [kind |-> "endpoint_func", has_wrapped |-> FALSE, name |-> "endpoint_func",
     module |-> <<"function_cloud", ".", "deployer">>,
     source |-> "src_endpoint_func", srcKind |-> "indented",
     has_url |-> FALSE, url |-> <<>>]

\* The loops over packages and system_deps: str() of every entry that is
\* not None, in the order of the list.
RECURSIVE valid_entries(_)
valid_entries(values) ==
    IF values = <<>> THEN <<>>
    ELSE IF Head(values) = Null THEN valid_entries(Tail(values))
    ELSE <<Str(Head(values).text)>> \o valid_entries(Tail(values))

NoImage == [built |-> FALSE, pip_install |-> <<>>, apt_install |-> <<>>]

\* What create_modal_function hands to pip_install and apt_install; the
\* packages of a manifest are Python strings.
image_build(dependencies) ==
    [built |-> TRUE,
     pip_install |->
         valid_entries([i \in 1..Len(dependencies.packages) |->
                            Str(dependencies.packages[i])]),
     apt_install |-> valid_entries(dependencies.system_dependencies)]

\* create_modal_function: ImportError without modal; the image build and the
\* registration are the platform's and may raise its error; the result is
\* endpoint_func for a function marked _fc_endpoint, modal_func otherwise.
create_modal_function(f, dependencies, has_modal, platform) ==
    IF ~has_modal
    THEN [raised |-> "ImportError", handle |-> NoHandle, image |-> NoImage]
    ELSE IF platform = "error"
    THEN [raised |-> "PlatformError", handle |-> NoHandle,
          image |-> image_build(dependencies)]
    ELSE [raised |-> "none",
          handle |-> IF f.endpoint THEN EndpointFunc ELSE ModalFunc(f),
          image |-> image_build(dependencies)]

\* Mutant: the hash is always taken from the time and the random digits.
generate_url_path_timestamped(f, rnd) ==
    f.module \o <<".", f.name, "-", rnd>>

\* generate_url_path: module.name-hash, the hash from the source text, or
\* from the time and random digits when inspect.getsource raises.
generate_url_path(f, rnd) ==
    f.module \o <<".", f.name, "-",
                  IF f.srcKind = "none" THEN rnd ELSE MD5_8(f.source)>>

ReplaceDots(path) ==
    [i \in 1..Len(path) |-> IF path[i] = "." THEN "-" ELSE path[i]]

\* function_to_endpoint: https://{stub_name}--{path, dots to hyphens}.modal.run
function_to_endpoint(stub, func_path) ==
    <<"https://", stub, "--">> \o ReplaceDots(func_path) \o <<".modal.run">>

\* What the assignment of _fc_url does: "none" when the attribute is set,
\* else the exception Python raises for an object that takes no attribute.
AttachOutcomes == {"none", "AttributeError", "TypeError"}

\* The generic path of deploy_function's except clause.
GenericPath(rnd) == <<"playground", ".", "function", "-", rnd>>

\* Mutant: without the outer try, the exception of the URL computation
\* reaches the caller.
deploy_function_unguarded(handle, f, stub, url_error, attach, rnd) ==
    IF url_error
    THEN [raised |-> "Exception", url |-> <<>>,
          on_original |-> FALSE, handle |-> handle]
    ELSE IF handle.has_wrapped
    THEN [raised |-> "none",
          url |-> function_to_endpoint(stub, generate_url_path(f, rnd)),
          on_original |-> attach = "none", handle |-> handle]
    ELSE [raised |-> "none",
          url |-> function_to_endpoint(stub, generate_url_path(handle, rnd)),
          on_original |-> FALSE, handle |-> handle]

\* deploy_function: the URL of modal_func.__wrapped__ when there is one,
\* else of the handle itself; the generic URL when anything raises.
\* url_error: the computation of the path or the URL raises; attach: what
\* the assignment of _fc_url does. on_original: the URL was stored on the
\* original function; raised: the exception that reaches the caller.
deploy_function(handle, f, stub, url_error, attach, rnd) ==
    IF url_error
    THEN [raised |-> "none",
          url |-> function_to_endpoint(stub, GenericPath(rnd)),
          on_original |-> FALSE, handle |-> handle]
    ELSE IF handle.has_wrapped
    THEN [raised |-> "none",
          url |-> function_to_endpoint(stub, generate_url_path(f, rnd)),
          on_original |-> attach = "none", handle |-> handle]
    ELSE LET url == function_to_endpoint(stub, generate_url_path(handle, rnd))
         IN  [raised |-> "none", url |-> url, on_original |-> FALSE,
              handle |-> IF attach = "none"
                         THEN [handle EXCEPT !.has_url = TRUE, !.url = url]
                         ELSE handle]

NoAttrs ==
    [has_deployed |-> FALSE, deployed |-> FALSE, has_url |-> FALSE, url |-> <<>>,
     has_modal_func |-> FALSE, modal_func |-> NoHandle]

NoSteps ==
    [attempt |-> 0, analyze |-> 0, enhance |-> 0, create |-> 0, deploy |-> 0,
     local |-> 0]

\* Mutant: an attempt that raises still marks func as deployed.
attrs_after_raise_marked(a) ==
    [a EXCEPT !.has_deployed = TRUE, !.deployed = TRUE]

\* The attributes of func after an exception that leaves the wrapper: the
\* three assignments come after every call of the try block and the except
\* clause is for ImportError alone, so none of them ran.
attrs_after_raise(a) == a

\* One invocation of wrapper(*args, **kwargs). env: the enrichment outcome,
\* the platform's behaviour, whether URL computation raises, the random hash.
\* ran: the steps this invocation ran; failure: how its deployment attempt
\* ended ("none": no attempt, or an attempt without failure).
wrapper(a, f, args, has_modal, stub, env) ==
    LET imports == analyze_imports(f)
        enhanced == enhance_with_llm(f, imports.imports, env.llm)
        dependencies ==
            IF enhanced.raised THEN PackagesOnly(SetToSeq(imports.imports))
            ELSE enhanced.manifest
        created == create_modal_function(f, dependencies, has_modal, env.platform)
        deployed == deploy_function(created.handle, f, stub, env.url_error, "none",
                                    env.rnd)
        local == [NoSteps EXCEPT !.local = 1]
    IN  IF a.has_deployed /\ a.deployed
        THEN [attrs |-> a, raised |-> FALSE, value |-> Body(f, args),
              attempted |-> FALSE, failure |-> "none", ran |-> local]
        ELSE IF imports.raised
        THEN [attrs |-> attrs_after_raise(a), raised |-> TRUE, value |-> NoValue,
              attempted |-> TRUE, failure |-> "analysis",
              ran |-> [NoSteps EXCEPT !.attempt = 1, !.analyze = 1]]
        ELSE IF created.raised = "ImportError"
        THEN [attrs |-> [a EXCEPT !.has_deployed = TRUE, !.deployed = TRUE,
                                  !.has_url = TRUE,
                                  !.url = <<"https://example.com/">> \o f.module
                                          \o <<".", f.name>>],
              raised |-> FALSE, value |-> Body(f, args),
              attempted |-> TRUE, failure |-> "ImportError",
              ran |-> [local EXCEPT !.attempt = 1, !.analyze = 1, !.enhance = 1,
                                    !.create = 1]]
        ELSE IF created.raised = "PlatformError"
        THEN [attrs |-> attrs_after_raise(a), raised |-> TRUE, value |-> NoValue,
              attempted |-> TRUE, failure |-> "PlatformError",
              ran |-> [NoSteps EXCEPT !.attempt = 1, !.analyze = 1, !.enhance = 1,
                                      !.create = 1]]
        ELSE [attrs |-> [has_deployed |-> TRUE, deployed |-> TRUE,
                         has_url |-> TRUE, url |-> deployed.url,
                         has_modal_func |-> TRUE, modal_func |-> deployed.handle],
              raised |-> FALSE, value |-> Body(f, args),
              attempted |-> TRUE,
              failure |-> IF env.url_error THEN "url" ELSE "none",
              ran |-> [local EXCEPT !.attempt = 1, !.analyze = 1, !.enhance = 1,
                                    !.create = 1, !.deploy = 1]]

\* Mutant: returns whatever is there without the hasattr check.
get_url_unchecked(a) ==
    [raised |-> FALSE, url |-> a.url]

\* get_url: ValueError while func has no _fc_url attribute.
get_url(a) ==
    IF ~a.has_url THEN [raised |-> TRUE, url |-> <<>>]
    ELSE [raised |-> FALSE, url |-> a.url]

NoCall ==
    [done |-> FALSE, args |-> <<>>, raised |-> FALSE, value |-> NoValue,
     attempted |-> FALSE, failure |-> "none"]

NoGet == [done |-> FALSE, raised |-> FALSE, url |-> <<>>, returned_before |-> 0]

InitWrapper ==
    /\ func \in Functions
    /\ HAS_MODAL \in BOOLEAN
    /\ stub_name = "fc_app"
    /\ attrs = NoAttrs
    /\ calls = [wrapper |-> 0, returned |-> 0, steps |-> NoSteps]
    /\ lastCall = NoCall
    /\ lastGet = NoGet
    /\ urlLog = {}

Envs ==
    [llm : LlmEnvs, platform : {"ok", "error"},
     url_error : BOOLEAN, rnd : RandomHashes]

Invoke ==
    /\ calls.wrapper < MaxCalls
    /\ \E args \in ArgsOf(func), env \in Envs :
        LET r == wrapper(attrs, func, args, HAS_MODAL, stub_name, env)
        IN  /\ attrs' = r.attrs
            /\ calls' =
                [wrapper |-> calls.wrapper + 1,
                 returned |-> calls.returned + (IF r.raised THEN 0 ELSE 1),
                 steps |-> [k \in DOMAIN NoSteps |-> calls.steps[k] + r.ran[k]]]
            /\ lastCall' =
                [done |-> TRUE, args |-> args, raised |-> r.raised,
                 value |-> r.value, attempted |-> r.attempted,
                 failure |-> r.failure]
    /\ UNCHANGED <<func, HAS_MODAL, stub_name, lastGet, urlLog>>

GetUrl ==
    /\ LET r == get_url(attrs)
       IN  /\ lastGet' = [done |-> TRUE, raised |-> r.raised, url |-> r.url,
                          returned_before |-> calls.returned]
           /\ urlLog' = IF calls.wrapper >= 1
                        THEN urlLog \cup {[raised |-> r.raised, url |-> r.url]}
                        ELSE urlLog
    /\ UNCHANGED <<func, HAS_MODAL, stub_name, attrs, calls, lastCall>>

(* ----------------------- auth: Google OAuth flow ----------------------- *)

VARIABLES
    HAS_OAUTH,         \* auth.HAS_OAUTH: oauthlib and requests were imported
    GOOGLE_CLIENT_ID,  \* FCAuth.GOOGLE_CLIENT_ID, "" when not configured
    REDIRECT_URL,      \* FCAuth.REDIRECT_URL, "" when FC_REDIRECT_URL is empty
    stateFiles,        \* the state_<nonce>.json files: nonce -> content
    credentialsFile,   \* credentials.json: subject id -> credential set
    everStates,        \* every value secrets.token_hex(16) has returned
    consumed,          \* nonce -> callbacks that found its state file
    lastAuth           \* the last get_google_auth_url / handle_google_callback

oauthVars ==
    <<HAS_OAUTH, GOOGLE_CLIENT_ID, REDIRECT_URL, stateFiles, credentialsFile,
      everStates, consumed, lastAuth>>

\* State nonces one run may draw.
MaxNonces == 2

\* The k-th value secrets.token_hex(16) returns.
Nonce(k) == <<"hex", k>>

\* A state value that was never drawn, and a callback URL without state.
ForgedState == <<"hex", 0>>
NoState == <<"none", 0>>

\* The default of FC_REDIRECT_URL, and what web/app.py passes as redirect_uri.
DefaultRedirect == "https://clud-h9ao-saad-momin-s-projects.vercel.app/callback"
CallerRedirect == "https://app.example/callback"

ClientIds == {"", "client-id"}
RedirectUrls == {DefaultRedirect, ""}

\* What one HTTP request to the provider ends in: a response the code can
\* use, no response at all (requests raises), or an error status with a JSON
\* error body (requests returns it like any other response).
Outcomes == {"ok", "network", "error_json"}

\* The accounts the provider knows; every user-info document carries "sub".
Users ==
    {[sub |-> "sub1", email |-> "ann@example.org"],
     [sub |-> "sub2", email |-> "bob@example.org"]}

FirstUser == CHOOSE u \in Users : u.sub = "sub1"

\* The behaviour of the provider during one callback: the outcome of each
\* request the call gets to send, the account the authorization code
\* belongs to and whether its email is verified. What is never looked at
\* (a request after the one that failed, the account of a document that is
\* not used) is fixed.
Idps ==
    {i \in [discovery : Outcomes, token : Outcomes, userinfo : Outcomes,
            user : Users, email_verified : BOOLEAN] :
        /\ i.discovery # "ok" => i.token = "ok"
        /\ i.token # "ok" => i.userinfo = "ok"
        /\ (i.discovery # "ok" \/ i.token # "ok" \/ i.userinfo # "ok")
              => ~i.email_verified
        /\ ~i.email_verified => i.user = FirstUser}

\* A Python dict with the keys of a user-info document; {} has no keys.
EmptyDict ==
    [keys |-> {}, sub |-> "", email |-> "", email_verified |-> FALSE]

\* userinfo_response.json(): the document, or the error body.
userinfo_json(idp) ==
    IF idp.userinfo = "ok"
    THEN [keys |-> {"sub", "email", "email_verified"}, sub |-> idp.user.sub,
          email |-> idp.user.email, email_verified |-> idp.email_verified]
    ELSE [EmptyDict EXCEPT !.keys = {"error"}]

NoUrl ==
    [endpoint |-> "", client_id |-> "", response_type |-> "",
     redirect_uri |-> "", scope |-> <<>>, state |-> NoState]

\* Mutant: a client object is built whenever the libraries are there.
oauth_client_without_id(has_oauth, client_id) == has_oauth

\* self.oauth_client is set: the libraries are there and a client id is.
oauth_client(has_oauth, client_id) == has_oauth /\ client_id # ""

\* Mutant: the caller's redirect URI always wins.
configured_or_given_prefers_given(redirect_url, redirect_uri) == redirect_uri

\* redirect_uri = self.REDIRECT_URL or redirect_uri
configured_or_given(redirect_url, redirect_uri) ==
    IF redirect_url # "" THEN redirect_url ELSE redirect_uri

\* The object and the files it reads, as one call sees them.
Self ==
    [HAS_OAUTH |-> HAS_OAUTH, GOOGLE_CLIENT_ID |-> GOOGLE_CLIENT_ID,
     REDIRECT_URL |-> REDIRECT_URL, stateFiles |-> stateFiles,
     tokensFile |-> tokensFile, credentialsFile |-> credentialsFile]

\* Writing state_<state>.json.
write_state_file(files, state, content) ==
    [s \in DOMAIN files \cup {state} |->
        IF s = state THEN content ELSE files[s]]

\* get_google_auth_url, with the outcome of the discovery request and the
\* nonce token_hex returns.
get_google_auth_url(self, redirect_uri, discovery, state) ==
    LET failed(kind, sent) ==
            [raised |-> kind, url |-> NoUrl, stateFiles |-> self.stateFiles,
             requests |-> sent]
        uri == configured_or_given(self.REDIRECT_URL, redirect_uri)
    IN  IF ~self.HAS_OAUTH THEN failed("ImportError", <<>>)
        ELSE IF ~oauth_client(self.HAS_OAUTH, self.GOOGLE_CLIENT_ID)
        THEN failed("ValueError", <<>>)
        ELSE IF discovery = "network"
        THEN failed("ConnectionError", <<"discovery">>)
        ELSE IF discovery = "error_json"
        THEN failed("KeyError", <<"discovery">>)
        ELSE [raised |-> "none",
              url |-> [endpoint |-> "authorization_endpoint",
                       client_id |-> self.GOOGLE_CLIENT_ID,
                       response_type |-> "code",
                       redirect_uri |-> uri,
                       scope |-> <<"openid", "email", "profile">>,
                       state |-> state],
              stateFiles |-> write_state_file(self.stateFiles, state,
                                              [redirect_uri |-> uri]),
              requests |-> <<"discovery">>]

\* Mutant: the state file is read but not removed.
consume_state_keeps_file(files, state, redirect_uri) ==
    IF state # NoState /\ state \in DOMAIN files
    THEN [found |-> TRUE,
          redirect_uri |-> IF files[state].redirect_uri # ""
                           THEN files[state].redirect_uri ELSE redirect_uri,
          stateFiles |-> files]
    ELSE [found |-> FALSE, redirect_uri |-> redirect_uri, stateFiles |-> files]

\* Mutant: every state file is removed with the one that was found.
consume_state_removes_all(files, state, redirect_uri) ==
    IF state # NoState /\ state \in DOMAIN files
    THEN [found |-> TRUE,
          redirect_uri |-> IF files[state].redirect_uri # ""
                           THEN files[state].redirect_uri ELSE redirect_uri,
          stateFiles |-> [s \in {} |-> files[s]]]
    ELSE [found |-> FALSE, redirect_uri |-> redirect_uri, stateFiles |-> files]

\* The state lookup of handle_google_callback: when the callback URL has a
\* state and its file exists, the stored redirect URI replaces the given one
\* and the file is removed; in every other case the call just goes on.
consume_state(files, state, redirect_uri) ==
    IF state # NoState /\ state \in DOMAIN files
    THEN [found |-> TRUE,
          redirect_uri |-> IF files[state].redirect_uri # ""
                           THEN files[state].redirect_uri ELSE redirect_uri,
          stateFiles |-> [s \in DOMAIN files \ {state} |-> files[s]]]
    ELSE [found |-> FALSE, redirect_uri |-> redirect_uri, stateFiles |-> files]

\* Mutant: any user-info document of an account counts as verified.
email_verified_ignored(doc) == "sub" \in doc.keys

\* userinfo_response.json().get("email_verified") is truthy.
email_verified(doc) == "email_verified" \in doc.keys /\ doc.email_verified

\* Mutant: an entry that exists is kept as it is.
_save_credentials_keeps_entry(file, user_info, token, t) ==
    IF "sub" \in user_info.keys /\ user_info.sub # ""
    THEN [u \in DOMAIN file \cup {user_info.sub} |->
            IF u \in DOMAIN file THEN file[u]
            ELSE [email |-> user_info.email, token |-> token, created_at |-> t]]
    ELSE file

\* _save_credentials: the entry under user_info["sub"] is set and the file
\* written; nothing is written for a document without "sub".
_save_credentials(file, user_info, token, t) ==
    IF "sub" \in user_info.keys /\ user_info.sub # ""
    THEN [u \in DOMAIN file \cup {user_info.sub} |->
            IF u = user_info.sub
            THEN [email |-> user_info.email, token |-> token, created_at |-> t]
            ELSE file[u]]
    ELSE file

\* handle_google_callback for the callback URL authorization_response (its
\* state parameter), the provider behaving as idp, and rnd the values
\* generate_token draws and the clock readings. oauthlib is given no state
\* to compare (prepare_request_uri keeps none on the client), so
\* prepare_token_request accepts whatever state the URL carries.
handle_google_callback(self, redirect_uri, authorization_response, idp, rnd) ==
    LET st == consume_state(self.stateFiles, authorization_response.state,
                  configured_or_given(self.REDIRECT_URL, redirect_uri))
        outcome(kind, success, message, identity, sent, looked) ==
            [raised |-> kind, success |-> success, message |-> message,
             identity |-> identity, found |-> looked /\ st.found,
             requests |-> sent,
             stateFiles |-> IF looked THEN st.stateFiles ELSE self.stateFiles,
             tokensFile |-> self.tokensFile,
             credentialsFile |-> self.credentialsFile, minted |-> <<>>]
        raises(kind, sent, looked) ==
            outcome(kind, FALSE, "", EmptyDict, sent, looked)
        user_info == userinfo_json(idp)
    IN  IF ~self.HAS_OAUTH
        THEN raises("ImportError", <<>>, FALSE)
        ELSE IF ~oauth_client(self.HAS_OAUTH, self.GOOGLE_CLIENT_ID)
        THEN raises("ValueError", <<>>, FALSE)
        ELSE IF idp.discovery = "network"
        THEN raises("ConnectionError", <<"discovery">>, TRUE)
        ELSE IF idp.discovery = "error_json"
        THEN raises("KeyError", <<"discovery">>, TRUE)
        ELSE IF idp.token = "network"
        THEN raises("ConnectionError", <<"discovery", "token">>, TRUE)
        ELSE IF idp.token = "error_json"
        THEN raises("OAuth2Error", <<"discovery", "token">>, TRUE)
        ELSE IF idp.userinfo = "network"
        THEN raises("ConnectionError", <<"discovery", "token", "userinfo">>,
                    TRUE)
        ELSE IF email_verified(user_info)
        THEN [outcome("none", TRUE, "Authentication successful", user_info,
                      <<"discovery", "token", "userinfo">>, TRUE)
                EXCEPT !.tokensFile =
                           _save_token(self.tokensFile, rnd.token,
                                       rnd.token_id, rnd.t1, rnd.t2),
                       !.credentialsFile =
                           _save_credentials(self.credentialsFile, user_info,
                                             rnd.token, rnd.t2),
                       !.minted = <<rnd.token>>]
        ELSE outcome("none", FALSE, "User email not verified", EmptyDict,
                     <<"discovery", "token", "userinfo">>, TRUE)

Nonces == {Nonce(k) : k \in 1..MaxNonces}

\* The provider as far as one get_google_auth_url call meets it.
DiscoveryOnly(discovery) ==
    [discovery |-> discovery, token |-> "ok", userinfo |-> "ok",
     user |-> FirstUser, email_verified |-> FALSE]

NoAuth ==
    [op |-> "none", redirect_uri |-> "", state |-> NoState, raised |-> "none",
     success |-> FALSE, message |-> "", identity |-> EmptyDict,
     found |-> FALSE, requests |-> <<>>, url |-> NoUrl, minted |-> <<>>,
     idp |-> DiscoveryOnly("ok"), at |-> 0]

\* The constructor of FCAuth in a fresh configuration directory.
InitOAuth ==
    /\ HAS_OAUTH \in BOOLEAN
    /\ GOOGLE_CLIENT_ID \in ClientIds
    /\ REDIRECT_URL \in RedirectUrls
    /\ stateFiles = [s \in {} |-> [redirect_uri |-> ""]]
    /\ credentialsFile =
           [u \in {} |-> [email |-> "", token |-> "", created_at |-> 0]]
    /\ everStates = {}
    /\ consumed = [s \in Nonces |-> 0]
    /\ lastAuth = NoAuth

\* get_google_auth_url: token_hex returns a nonce that was never drawn.
GetGoogleAuthUrl ==
    /\ Cardinality(everStates) < MaxNonces
    /\ \E redirect_uri \in {CallerRedirect}, discovery \in Outcomes :
        LET state == Nonce(Cardinality(everStates) + 1)
        IN
        \E r \in {get_google_auth_url(Self, redirect_uri, discovery, state)} :
            /\ stateFiles' = r.stateFiles
            /\ everStates' = IF r.raised = "none" THEN everStates \cup {state}
                             ELSE everStates
            /\ lastAuth' =
                 [NoAuth EXCEPT !.op = "auth_url",
                                !.redirect_uri = redirect_uri,
                                !.state = r.url.state,
                                !.raised = r.raised,
                                !.requests = r.requests,
                                !.url = r.url,
                                !.idp = DiscoveryOnly(discovery),
                                !.at = now]
    /\ UNCHANGED <<HAS_OAUTH, GOOGLE_CLIENT_ID, REDIRECT_URL, credentialsFile,
                   consumed, tokensFile, now, everIssued, everIds, revoked,
                   lastOp>>

\* handle_google_callback: the callback URL carries a drawn nonce, a value
\* that was never drawn, or no state; generate_token draws a fresh token
\* and record id. The clock readings of one call are not told apart here.
HandleGoogleCallback ==
    \E state \in Nonces \cup {ForgedState, NoState}, idp \in Idps :
        LET freeTokens == TokenPool \ everIssued
            freeIds == IdPool \ everIds
            rnd == [token |-> IF freeTokens = {} THEN "-"
                              ELSE CHOOSE t \in freeTokens : TRUE,
                    token_id |-> IF freeIds = {} THEN "-"
                                 ELSE CHOOSE i \in freeIds : TRUE,
                    t1 |-> now, t2 |-> now]
        IN
        \E r \in {handle_google_callback(Self, CallerRedirect,
                                         [state |-> state], idp, rnd)} :
        LET minted == r.minted # <<>>
        IN  /\ minted => /\ freeTokens # {}
                         /\ freeIds # {}
                         /\ Len(_load_tokens(tokensFile)) < MaxTokens
            /\ stateFiles' = r.stateFiles
            /\ tokensFile' = r.tokensFile
            /\ credentialsFile' = r.credentialsFile
            /\ now' = now
            /\ everIssued' = IF minted THEN everIssued \cup {rnd.token}
                             ELSE everIssued
            /\ everIds' = IF minted THEN everIds \cup {rnd.token_id}
                          ELSE everIds
            /\ consumed' = IF r.found
                           THEN [consumed EXCEPT ![state] =
                                    IF @ < 2 THEN @ + 1 ELSE @]
                           ELSE consumed
            /\ lastAuth' =
                 [NoAuth EXCEPT !.op = "callback",
                                !.redirect_uri = CallerRedirect,
                                !.state = state,
                                !.raised = r.raised,
                                !.success = r.success,
                                !.message = r.message,
                                !.identity = r.identity,
                                !.found = r.found,
                                !.requests = r.requests,
                                !.minted = r.minted,
                                !.idp = idp,
                                !.at = now]
            /\ UNCHANGED <<HAS_OAUTH, GOOGLE_CLIENT_ID, REDIRECT_URL,
                           everStates, revoked, lastOp>>

(* ------------------ dependency enrichment on its own ------------------- *)

VARIABLES
    llmEnv,          \* FCConfig.llm_*, HAS_GROQ and the provider's behaviour
    givenImports,    \* the imports argument of enhance_with_llm
    enhanceResult,   \* what the last enhance_with_llm(func, imports) gave
    imageBuild       \* the last create_modal_function(func, manifest)

enhanceVars == <<llmEnv, givenImports, enhanceResult, imageBuild>>

\* Import sets a caller may hand to enhance_with_llm.
ImportSets == SUBSET {"requests", "numpy"}

NoEnhance ==
    [done |-> FALSE, raised |-> FALSE, manifest |-> NoManifest]

NoBuild ==
    [done |-> FALSE, manifest |-> NoManifest, raised |-> "none",
     image |-> NoImage]

InitEnhance ==
    /\ llmEnv \in LlmSettings
    /\ givenImports \in ImportSets
    /\ enhanceResult = NoEnhance
    /\ imageBuild = NoBuild

\* Where enhance_with_llm is not called on its own.
EnhanceIdle ==
    /\ llmEnv = DefaultLlm
    /\ givenImports = {}

\* DependencyAnalyzer.enhance_with_llm(func, imports), called directly.
Enhance ==
    /\ \E r \in {enhance_with_llm(func, givenImports, llmEnv)} :
        enhanceResult' = [done |-> TRUE, raised |-> r.raised,
                          manifest |-> r.manifest]
    /\ UNCHANGED <<llmEnv, givenImports, imageBuild>>

\* FCDeployer.create_modal_function(func, dependencies) on the manifest the
\* resolver gave.
CreateModalFunction ==
    /\ enhanceResult.done
    /\ ~enhanceResult.raised
    /\ \E platform \in {"ok", "error"} :
        \E r \in {create_modal_function(func, enhanceResult.manifest,
                                        HAS_MODAL, platform)} :
            imageBuild' = [done |-> TRUE, manifest |-> enhanceResult.manifest,
                           raised |-> r.raised, image |-> r.image]
    /\ UNCHANGED <<llmEnv, givenImports, enhanceResult>>

(* ------------------------ URL manager on its own ----------------------- *)

VARIABLES
    pathLog    \* the generate_url_path calls so far: function, time, results

urlVars == <<pathLog>>

\* generate_url_path calls in one run.
MaxPathCalls == 2

\* add after an edit of its body: same module and name, other source text.
EditedAddFunc == [AddFunc EXCEPT !.source = "src_add_edited"]

\* ''.join([str(random.randint(0, 9)) for _ in range(4)])
RandomDigits == {"0000", "4711"}

\* hashlib.md5(f"{timestamp}_{random_str}".encode()).hexdigest()[:8], taken
\* to be different for different texts.
fallback_hash(timestamp, random_str) ==
    "md5(" \o ToString(timestamp) \o "_" \o random_str \o ")"

StubNames == {"fc_app", "my_app"}

UrlIdle == pathLog = <<>>

\* FCURLManager.generate_url_path(f) followed by function_to_endpoint, as
\* deploy_function calls them; time.time() reads the clock.
GenerateUrlPath ==
    /\ Len(pathLog) < MaxPathCalls
    /\ \E f \in Functions \cup {EditedAddFunc}, random_str \in RandomDigits :
        \E path \in {generate_url_path(f, fallback_hash(now, random_str))} :
            pathLog' = Append(pathLog,
                              [func |-> f, at |-> now, path |-> path,
                               stub |-> stub_name,
                               url |-> function_to_endpoint(stub_name, path)])

(* ------------------------- configuration: FCConfig --------------------- *)

VARIABLES
    cfg,          \* the class attributes of FCConfig
    environ,      \* os.environ
    configFile,   \* ~/.function_cloud/config.json
    tokenPassed,  \* some FC.configure call was given a token
    lastConfig    \* the last FC.configure call or FC.function decoration

configVars == <<cfg, environ, configFile, tokenPassed, lastConfig>>

\* An optional value: <<>> when it is not there, <<v>> when it is v.
Given(opt) == opt # <<>>

\* Python's truth value of a string or None.
Truthy(v) == v \notin {NoneVal, ""}

\* FCConfig as the class statement leaves it; use_default_credentials is the
\* attribute of that name, "method" while it is the classmethod.
DefaultConfig ==
    [token |-> NoneVal, memory |-> 1024, llm_enabled |-> TRUE,
     llm_api_key |-> NoneVal, validate_token |-> FALSE,
     use_default_credentials |-> "method"]

\* The environment: MODAL_TOKEN_ID and MODAL_TOKEN_SECRET are set together
\* or not at all, and only where MODAL_TOKEN, which is read first, is not set.
Environments ==
    {e \in [MODAL_TOKEN : {"", "env_tok"}, MODAL_TOKEN_ID : {"", "id"},
            MODAL_TOKEN_SECRET : {"", "secret"},
            GROQ_API_KEY : {"", "env_key"}, FC_MEMORY : {<<>>, <<4096>>}] :
        /\ (e.MODAL_TOKEN_ID = "") <=> (e.MODAL_TOKEN_SECRET = "")
        /\ e.MODAL_TOKEN # "" => e.MODAL_TOKEN_ID = ""}

\* The configuration file: not there, or with a token and a memory entry.
ConfigFiles ==
    {[exists |-> FALSE, token |-> <<>>, memory |-> <<>>],
     [exists |-> TRUE, token |-> <<"file_tok">>, memory |-> <<512>>]}

\* The keyword arguments of FC.configure: at most two options in one call.
OptionNames ==
    {"memory", "llm_api_key", "llm_enabled", "validate_token",
     "use_default_credentials"}

Kwargs ==
    {k \in [memory : {<<>>, <<2048>>},
            llm_api_key : {<<>>, <<"">>, <<"user_key">>},
            llm_enabled : {<<>>, <<FALSE>>},
            validate_token : {<<>>, <<TRUE>>},
            use_default_credentials : {<<>>, <<TRUE>>, <<FALSE>>}] :
        Cardinality({o \in OptionNames : Given(k[o])}) <= 2}

\* FCConfig.load_from_env
load_from_env(c, env) ==
    LET token == IF env.MODAL_TOKEN # "" THEN env.MODAL_TOKEN
                 ELSE IF env.MODAL_TOKEN_ID # "" /\ env.MODAL_TOKEN_SECRET # ""
                      THEN env.MODAL_TOKEN_ID \o ":" \o env.MODAL_TOKEN_SECRET
                      ELSE c.token
    IN  [c EXCEPT !.token = token,
                  !.llm_api_key = IF env.GROQ_API_KEY # ""
                                  THEN env.GROQ_API_KEY ELSE @,
                  !.llm_enabled = IF env.GROQ_API_KEY # "" THEN TRUE ELSE @,
                  !.memory = IF Given(env.FC_MEMORY) THEN env.FC_MEMORY[1]
                             ELSE @]

\* FCConfig.load_from_file, for the default path
load_from_file(c, file) ==
    IF ~file.exists THEN c
    ELSE [c EXCEPT !.token = IF Given(file.token) THEN file.token[1] ELSE @,
                   !.memory = IF Given(file.memory) THEN file.memory[1] ELSE @]

\* FCConfig.use_default_credentials; the class attributes MODAL_TOKEN_ID,
\* MODAL_TOKEN_SECRET and GROQ_API_KEY were read from the same environment
\* when the module was imported.
use_default_credentials(c, env) ==
    [c EXCEPT !.token = IF Truthy(@) THEN @
                        ELSE env.MODAL_TOKEN_ID \o ":" \o env.MODAL_TOKEN_SECRET,
              !.llm_api_key = IF ~Truthy(@) /\ c.llm_enabled
                              THEN env.GROQ_API_KEY ELSE @]

\* Mutant: an option is set only where the attribute still has its default.
setattr_options_keeps_loaded(c, kwargs) ==
    [c EXCEPT !.memory = IF Given(kwargs.memory) /\ @ = DefaultConfig.memory
                         THEN kwargs.memory[1] ELSE @,
              !.llm_api_key = IF Given(kwargs.llm_api_key)
                                   /\ @ = DefaultConfig.llm_api_key
                              THEN kwargs.llm_api_key[1] ELSE @,
              !.llm_enabled = IF Given(kwargs.llm_enabled)
                              THEN kwargs.llm_enabled[1] ELSE @,
              !.validate_token = IF Given(kwargs.validate_token)
                                 THEN kwargs.validate_token[1] ELSE @,
              !.use_default_credentials =
                  IF Given(kwargs.use_default_credentials)
                  THEN IF kwargs.use_default_credentials[1] THEN "True"
                       ELSE "False"
                  ELSE @]

\* The loop of FC.configure over kwargs: setattr for every key FCConfig has
\* an attribute for, the classmethod use_default_credentials included.
setattr_options(c, kwargs) ==
    [c EXCEPT !.memory = IF Given(kwargs.memory) THEN kwargs.memory[1] ELSE @,
              !.llm_api_key = IF Given(kwargs.llm_api_key)
                              THEN kwargs.llm_api_key[1] ELSE @,
              !.llm_enabled = IF Given(kwargs.llm_enabled)
                              THEN kwargs.llm_enabled[1] ELSE @,
              !.validate_token = IF Given(kwargs.validate_token)
                                 THEN kwargs.validate_token[1] ELSE @,
              !.use_default_credentials =
                  IF Given(kwargs.use_default_credentials)
                  THEN IF kwargs.use_default_credentials[1] THEN "True"
                       ELSE "False"
                  ELSE @]

\* FC.configure(token, **kwargs). valid: what auth.validate_token(token)
\* gives. The attributes set before an exception stay set.
configure(c, env, file, token, kwargs, valid) ==
    LET loaded == load_from_file(load_from_env(c, env), file)
        with_token == IF Truthy(token) THEN [loaded EXCEPT !.token = token]
                      ELSE loaded
        with_options == setattr_options(with_token, kwargs)
        wants_defaults == IF Given(kwargs.use_default_credentials)
                          THEN kwargs.use_default_credentials[1] ELSE TRUE
        with_defaults == IF wants_defaults
                         THEN use_default_credentials(with_options, env)
                         ELSE with_options
    IN  IF /\ Truthy(token)
           /\ Given(kwargs.validate_token) /\ kwargs.validate_token[1]
           /\ ~valid
        THEN [raised |-> "ValueError", cfg |-> loaded]
        ELSE IF wants_defaults
                /\ with_options.use_default_credentials # "method"
        THEN [raised |-> "TypeError", cfg |-> with_options]
        ELSE IF with_defaults.llm_api_key = NoneVal
        THEN [raised |-> "TypeError", cfg |-> with_defaults]
        ELSE [raised |-> "none", cfg |-> with_defaults]

\* FCConfig.validate, the first statement of FC.function.
validate(c, env, file) ==
    LET loaded == load_from_file(load_from_env(c, env), file)
        with_defaults == use_default_credentials(loaded, env)
    IN  IF loaded.use_default_credentials # "method"
        THEN [raised |-> "TypeError", cfg |-> loaded]
        ELSE IF ~Truthy(with_defaults.token)
        THEN [raised |-> "ValueError", cfg |-> with_defaults]
        ELSE [raised |-> "none", cfg |-> with_defaults]

NoKwargs ==
    [memory |-> <<>>, llm_api_key |-> <<>>, llm_enabled |-> <<>>,
     validate_token |-> <<>>, use_default_credentials |-> <<>>]

NoConfig ==
    [op |-> "none", token |-> NoneVal, kwargs |-> NoKwargs, raised |-> "none"]

ConfigIdle ==
    /\ cfg = DefaultConfig
    /\ environ \in Environments
    /\ configFile \in ConfigFiles
    /\ tokenPassed = FALSE
    /\ lastConfig = NoConfig

\* A process without FC_* settings and without a configuration file.
BareEnvironment ==
    /\ environ = [MODAL_TOKEN |-> "", MODAL_TOKEN_ID |-> "",
                  MODAL_TOKEN_SECRET |-> "", GROQ_API_KEY |-> "",
                  FC_MEMORY |-> <<>>]
    /\ configFile = [exists |-> FALSE, token |-> <<>>, memory |-> <<>>]

\* One call FC.configure(token, **kwargs).
ConfigureCall(token, kwargs) ==
    /\ \E r \in {configure(cfg, environ, configFile, token, kwargs,
                            validate_token(tokensFile, token, now))} :
            /\ cfg' = r.cfg
            /\ tokenPassed' = (tokenPassed \/ Truthy(token))
            /\ lastConfig' = [op |-> "configure", token |-> token,
                              kwargs |-> kwargs, raised |-> r.raised]
    /\ UNCHANGED <<environ, configFile>>

\* FC.configure(token, **kwargs)
Configure ==
    \E token \in {NoneVal, "user_tok"}, kwargs \in Kwargs :
        ConfigureCall(token, kwargs)

\* The keyword arguments of the calls that are about the token: memory and
\* validate_token, given or not.
TokenKwargs ==
    {k \in Kwargs : /\ k.llm_api_key = <<>>
                    /\ k.llm_enabled = <<>>
                    /\ k.use_default_credentials = <<>>}

\* FC.configure(token), FC.configure(token, validate_token=True), with or
\* without memory.
ConfigureToken ==
    \E token \in {NoneVal, "user_tok"}, kwargs \in TokenKwargs :
        ConfigureCall(token, kwargs)

\* FC.function(func): the decoration itself, up to the return of the wrapper.
Decorate ==
    /\ \E r \in {validate(cfg, environ, configFile)} :
        /\ cfg' = r.cfg
        /\ lastConfig' = [op |-> "function", token |-> NoneVal,
                          kwargs |-> NoKwargs, raised |-> r.raised]
    /\ UNCHANGED <<environ, configFile, tokenPassed>>

(* ------------------- deployer: the HTTP-triggered variant -------------- *)

VARIABLES
    lastRequest   \* the last request endpoint_func handled, and what it did

endpointVars == <<lastRequest>>

\* Keyword arguments: a dict as the set of its (key, value) pairs.
ParamDicts ==
    {{}, {<<"name", "World">>}, {<<"nick", "Bob">>}}

\* The content-type header, in segments; <<>> when the request has none.
ContentTypes ==
    {<<>>, <<"application/json">>, <<"application/json", "; charset=utf-8">>,
     <<"application/x-www-form-urlencoded">>, <<"text/plain">>}

\* A request: its method, its content-type header, and what
\* request.query_params, request.json() and request.form() give.
Requests ==
    [method : {"GET", "POST", "DELETE"}, content_type : ContentTypes,
     query_params : ParamDicts, json : ParamDicts, form : ParamDicts]

\* `text in content_type`
Contains(content_type, text) ==
    \E i \in 1..Len(content_type) : content_type[i] = text

\* func(**kwargs) for greet(name): TypeError unless name is the one keyword.
call_with_kwargs(f, kwargs) ==
    IF \E v \in {"World", "Ada"} : kwargs = {<<"name", v>>}
    THEN [raised |-> FALSE,
          value |-> Body(f, <<(CHOOSE p \in kwargs : TRUE)[2]>>)]
    ELSE [raised |-> TRUE, value |-> NoValue]

\* Mutant: the keyword arguments are taken from the body whatever the method.
request_kwargs_from_body(request) ==
    IF Contains(request.content_type, "application/json") THEN request.json
    ELSE IF Contains(request.content_type, "application/x-www-form-urlencoded")
    THEN request.form
    ELSE {}

\* The keyword arguments endpoint_func takes from the request.
request_kwargs(request) ==
    IF request.method = "GET" THEN request.query_params
    ELSE IF Contains(request.content_type, "application/json")
    THEN request.json
    ELSE IF Contains(request.content_type, "application/x-www-form-urlencoded")
    THEN request.form
    ELSE {}

\* endpoint_func(request). calls: how often it called func; response:
\* {"result": result}, the value under that one key.
endpoint_func(f, request) ==
    LET kwargs == request_kwargs(request)
        result == call_with_kwargs(f, kwargs)
    IN  [kwargs |-> kwargs, calls |-> 1, raised |-> result.raised,
         returned |-> result.value,
         response |-> IF result.raised THEN <<>>
                      ELSE <<[result |-> result.value]>>]

NoRequest ==
    [done |-> FALSE,
     request |-> [method |-> "GET", content_type |-> <<>>, query_params |-> {},
                  json |-> {}, form |-> {}],
     kwargs |-> {}, calls |-> 0, raised |-> FALSE, returned |-> NoValue,
     response |-> <<>>]

EndpointIdle == lastRequest = NoRequest

\* One request to the HTTP-triggered variant of an endpoint function.
HandleRequest ==
    /\ func.endpoint
    /\ \E request \in Requests :
        \E r \in {endpoint_func(func, request)} :
            lastRequest' = [done |-> TRUE, request |-> request,
                            kwargs |-> r.kwargs, calls |-> r.calls,
                            raised |-> r.raised, returned |-> r.returned,
                            response |-> r.response]

(* --------------- core: the wrapper, statement by statement ------------- *)

VARIABLES
    pc,        \* thread -> where it is in wrapper(*args, **kwargs)
    locals,    \* thread -> its local variables url and modal_func
    ran,       \* thread -> how often it ran create_modal_function
    writers    \* attribute of func -> the threads that have assigned it

threadVars == <<pc, locals, ran, writers>>

\* Threads that call the wrapped function at the same time.
MaxThreads == 2
Threads == 1..MaxThreads

NoLocals == [url |-> <<>>, modal_func |-> NoHandle]

ThreadsIdle ==
    /\ pc = [t \in Threads |-> "idle"]
    /\ locals = [t \in Threads |-> NoLocals]
    /\ ran = [t \in Threads |-> 0]
    /\ writers = [_fc_deployed |-> {}, _fc_url |-> {}, _fc_modal_func |-> {}]

\* Every thread has entered wrapper and none has executed a statement.
ThreadsCalling ==
    /\ pc = [t \in Threads |-> "check"]
    /\ locals = [t \in Threads |-> NoLocals]
    /\ ran = [t \in Threads |-> 0]
    /\ writers = [_fc_deployed |-> {}, _fc_url |-> {}, _fc_modal_func |-> {}]

\* The environments of one pipeline run: enrichment as configured by
\* default, with or without an API key.
ThreadEnvs ==
    {e \in Envs : e.llm \in {DefaultLlm, [DefaultLlm EXCEPT !.api_key = TRUE]}}

\* `if not hasattr(func, "_fc_deployed") or not func._fc_deployed:`
CheckDeployed ==
    /\ \E t \in Threads :
        /\ pc[t] = "check"
        /\ pc' = [pc EXCEPT ![t] = IF attrs.has_deployed /\ attrs.deployed
                                   THEN "local" ELSE "pipeline"]
    /\ UNCHANGED <<attrs, locals, ran, writers>>

\* analyze_imports, enhance_with_llm, create_modal_function and
\* deploy_function, which stores the URL on modal_func.__wrapped__ when
\* there is one. An exception other than ImportError leaves wrapper.
RunPipeline ==
    \E t \in Threads, env \in ThreadEnvs :
        LET imports == analyze_imports(func)
            enhanced == enhance_with_llm(func, imports.imports, env.llm)
            dependencies ==
                IF enhanced.raised THEN PackagesOnly(SetToSeq(imports.imports))
                ELSE enhanced.manifest
            created == create_modal_function(func, dependencies, HAS_MODAL,
                                             env.platform)
            deployed == deploy_function(created.handle, func, stub_name,
                                        env.url_error, "none", env.rnd)
        IN  /\ pc[t] = "pipeline"
            /\ IF imports.raised
               THEN /\ pc' = [pc EXCEPT ![t] = "raised"]
                    /\ UNCHANGED <<attrs, locals, ran, writers>>
               ELSE IF created.raised = "ImportError"
               THEN /\ pc' = [pc EXCEPT ![t] = "fallback_deployed"]
                    /\ ran' = [ran EXCEPT ![t] = @ + 1]
                    /\ UNCHANGED <<attrs, locals, writers>>
               ELSE IF created.raised = "PlatformError"
               THEN /\ pc' = [pc EXCEPT ![t] = "raised"]
                    /\ ran' = [ran EXCEPT ![t] = @ + 1]
                    /\ UNCHANGED <<attrs, locals, writers>>
               ELSE /\ pc' = [pc EXCEPT ![t] = "set_deployed"]
                    /\ ran' = [ran EXCEPT ![t] = @ + 1]
                    /\ locals' = [locals EXCEPT ![t] =
                                     [url |-> deployed.url,
                                      modal_func |-> deployed.handle]]
                    /\ attrs' = IF deployed.on_original
                                THEN [attrs EXCEPT !.has_url = TRUE,
                                                   !.url = deployed.url]
                                ELSE attrs
                    /\ writers' = IF deployed.on_original
                                  THEN [writers EXCEPT !._fc_url = @ \cup {t}]
                                  ELSE writers

\* `func._fc_deployed = True`
SetDeployed ==
    /\ \E t \in Threads :
        /\ pc[t] = "set_deployed"
        /\ pc' = [pc EXCEPT ![t] = "set_url"]
        /\ writers' = [writers EXCEPT !._fc_deployed = @ \cup {t}]
    /\ attrs' = [attrs EXCEPT !.has_deployed = TRUE, !.deployed = TRUE]
    /\ UNCHANGED <<locals, ran>>

\* Mutant: the statement goes by without the assignment.
SetUrl_skipped ==
    /\ \E t \in Threads :
        /\ pc[t] = "set_url"
        /\ pc' = [pc EXCEPT ![t] = "set_modal_func"]
    /\ UNCHANGED <<attrs, locals, ran, writers>>

\* `func._fc_url = url`
SetUrl ==
    /\ \E t \in Threads :
        /\ pc[t] = "set_url"
        /\ pc' = [pc EXCEPT ![t] = "set_modal_func"]
        /\ writers' = [writers EXCEPT !._fc_url = @ \cup {t}]
        /\ attrs' = [attrs EXCEPT !.has_url = TRUE, !.url = locals[t].url]
    /\ UNCHANGED <<locals, ran>>

\* `func._fc_modal_func = modal_func`
SetModalFunc ==
    /\ \E t \in Threads :
        /\ pc[t] = "set_modal_func"
        /\ pc' = [pc EXCEPT ![t] = "local"]
        /\ writers' = [writers EXCEPT !._fc_modal_func = @ \cup {t}]
        /\ attrs' = [attrs EXCEPT !.has_modal_func = TRUE,
                                  !.modal_func = locals[t].modal_func]
    /\ UNCHANGED <<locals, ran>>

\* In `except ImportError`: `func._fc_deployed = True`
FallbackDeployed ==
    /\ \E t \in Threads :
        /\ pc[t] = "fallback_deployed"
        /\ pc' = [pc EXCEPT ![t] = "fallback_url"]
        /\ writers' = [writers EXCEPT !._fc_deployed = @ \cup {t}]
    /\ attrs' = [attrs EXCEPT !.has_deployed = TRUE, !.deployed = TRUE]
    /\ UNCHANGED <<locals, ran>>

\* In `except ImportError`: `func._fc_url = f"https://example.com/..."`
FallbackUrl ==
    /\ \E t \in Threads :
        /\ pc[t] = "fallback_url"
        /\ pc' = [pc EXCEPT ![t] = "local"]
        /\ writers' = [writers EXCEPT !._fc_url = @ \cup {t}]
    /\ attrs' = [attrs EXCEPT !.has_url = TRUE,
                              !.url = <<"https://example.com/">> \o func.module
                                      \o <<".", func.name>>]
    /\ UNCHANGED <<locals, ran>>

\* `return func(*args, **kwargs)`
RunLocally ==
    /\ \E t \in Threads :
        /\ pc[t] = "local"
        /\ pc' = [pc EXCEPT ![t] = "returned"]
    /\ UNCHANGED <<attrs, locals, ran, writers>>

(* ------------- auth: the token store, statement by statement ----------- *)

VARIABLES
    req,         \* request -> the generate_token / revoke_token call it is in
    generated    \* the tokens whose generate_token call has returned

requestVars == <<req, generated>>

\* Requests that are served at the same time.
MaxRequests == 2
RequestIds == 1..MaxRequests

NoFile == [exists |-> FALSE, records |-> <<>>]

\* A request outside every call. tokens: what _load_tokens returned to it.
NoRequestCall == [op |-> "none", token |-> "-", at |-> "idle", tokens |-> NoFile]

RequestsIdle ==
    /\ req = [r \in RequestIds |-> NoRequestCall]
    /\ generated = {}

\* generate_token is entered: secrets.token_hex(32) is drawn.
BeginGenerate ==
    /\ Cardinality(everIssued) < MaxTokens
    /\ \E r \in RequestIds, token \in TokenPool \ everIssued :
        /\ req[r].at = "idle"
        /\ req' = [req EXCEPT ![r] = [op |-> "generate", token |-> token,
                                      at |-> "load", tokens |-> NoFile]]
        /\ everIssued' = everIssued \cup {token}
    /\ UNCHANGED <<tokensFile, now, everIds, revoked, lastOp, generated>>

\* revoke_token(token) is entered.
BeginRevoke ==
    /\ \E r \in RequestIds, token \in everIssued :
        /\ req[r].at = "idle"
        /\ req' = [req EXCEPT ![r] = [op |-> "revoke", token |-> token,
                                      at |-> "load", tokens |-> NoFile]]
    /\ UNCHANGED <<authVars, generated>>

\* `tokens = self._load_tokens()`, in _save_token and in revoke_token.
LoadTokens ==
    /\ \E r \in RequestIds :
        /\ req[r].at = "load"
        /\ req' = [req EXCEPT ![r].at = "write",
                              ![r].tokens = [exists |-> tokensFile.exists,
                                             records |-> _load_tokens(tokensFile)]]
    /\ UNCHANGED <<authVars, generated>>

\* The rest of _save_token: the record is added to what was loaded and the
\* file is written; generate_token returns.
WriteNewToken ==
    /\ \E r \in RequestIds :
        LET token_id == CHOOSE id \in IdPool \ everIds : TRUE
        IN  /\ req[r].at = "write"
            /\ req[r].op = "generate"
            /\ tokensFile' = _save_token(req[r].tokens, req[r].token, token_id,
                                         now, now)
            /\ everIds' = everIds \cup {token_id}
            /\ generated' = generated \cup {req[r].token}
            /\ lastOp' = [op |-> "generate", token |-> req[r].token,
                          result |-> TRUE, at |-> now]
            /\ req' = [req EXCEPT ![r] = NoRequestCall]
    /\ UNCHANGED <<now, everIssued, revoked>>

\* The rest of revoke_token: the loop over what was loaded, and the write
\* when a record matches; revoke_token returns.
WriteRevocation ==
    /\ \E r \in RequestIds :
        \E done \in {revoke_token(req[r].tokens, req[r].token)} :
            /\ req[r].at = "write"
            /\ req[r].op = "revoke"
            /\ tokensFile' = IF done.found THEN done.file ELSE tokensFile
            /\ revoked' = IF done.found THEN revoked \cup {req[r].token}
                          ELSE revoked
            /\ lastOp' = [op |-> "revoke", token |-> req[r].token,
                          result |-> done.found, at |-> now]
            /\ req' = [req EXCEPT ![r] = NoRequestCall]
    /\ UNCHANGED <<now, everIssued, everIds, generated>>

(* -------------------- web application: token refresh ------------------ *)

VARIABLES
    lastRefresh   \* the last POST /api/token/refresh and what it returned

webVars == <<lastRefresh>>

\* Mutant: the new token is generated without revoking the old one.
refresh_token_without_revoke(tokens, credentials, user_id, rnd) ==
    [old |-> credentials[user_id].token,
     token |-> rnd.token,
     tokensFile |-> _save_token(tokens, rnd.token, rnd.token_id, rnd.t1, rnd.t2),
     credentialsFile |-> [credentials EXCEPT ![user_id].token = rnd.token]]

\* refresh_token for the logged-in user user_id, whom load_user has built
\* from the entry of the credentials file: revoke current_user.token,
\* generate a token, put it into the entry of the user and answer with it.
\* rnd: the values generate_token draws and its clock readings.
refresh_token(tokens, credentials, user_id, rnd) ==
    LET old == credentials[user_id].token
        revoked_file == revoke_token(tokens, old).file
    IN  [old |-> old,
         token |-> rnd.token,
         tokensFile |-> _save_token(revoked_file, rnd.token, rnd.token_id,
                                    rnd.t1, rnd.t2),
         credentialsFile |-> IF user_id \in DOMAIN credentials
                             THEN [credentials EXCEPT ![user_id].token = rnd.token]
                             ELSE credentials]

NoRefresh == [done |-> FALSE, user_id |-> "", old |-> "", token |-> "", at |-> 0]

WebIdle == lastRefresh = NoRefresh

\* POST /api/token/refresh by a user who is logged in: login_required lets
\* the request through when load_user finds the user id of the session in
\* the credentials file.
RefreshToken ==
    /\ Len(_load_tokens(tokensFile)) < MaxTokens
    /\ TokenPool \ everIssued # {}
    /\ IdPool \ everIds # {}
    /\ \E user_id \in DOMAIN credentialsFile :
        LET rnd == [token |-> CHOOSE t \in TokenPool \ everIssued : TRUE,
                    token_id |-> CHOOSE i \in IdPool \ everIds : TRUE,
                    t1 |-> now, t2 |-> now]
        IN
        \E r \in {refresh_token(tokensFile, credentialsFile, user_id, rnd)} :
            /\ tokensFile' = r.tokensFile
            /\ credentialsFile' = r.credentialsFile
            /\ everIssued' = everIssued \cup {rnd.token}
            /\ everIds' = everIds \cup {rnd.token_id}
            /\ revoked' = revoked \cup {r.old}
            /\ lastRefresh' = [done |-> TRUE, user_id |-> user_id, old |-> r.old,
                               token |-> r.token, at |-> now]
    /\ UNCHANGED <<now, lastOp, HAS_OAUTH, GOOGLE_CLIENT_ID, REDIRECT_URL,
                   stateFiles, everStates, consumed, lastAuth>>

(* ------------------ deployer: deploy_function on its own -------------- *)

VARIABLES
    lastDeploy    \* the last direct call of deploy_function and its result

deployerVars == <<lastDeploy>>

NoDeploy ==
    [done |-> FALSE, handle |-> NoHandle, url_error |-> FALSE,
     attach |-> "none", rnd |-> "",
     result |-> [raised |-> "none", url |-> <<>>, on_original |-> FALSE,
                 handle |-> NoHandle]]

DeployerIdle == lastDeploy = NoDeploy

\* FCDeployer.deploy_function(modal_func), called on the modal function of
\* func or on an endpoint function.
DeployFunction ==
    \E handle \in {ModalFunc(func), EndpointFunc}, url_error \in BOOLEAN,
       attach \in AttachOutcomes, rnd \in RandomHashes :
        lastDeploy' = [done |-> TRUE, handle |-> handle,
                       url_error |-> url_error, attach |-> attach, rnd |-> rnd,
                       result |-> deploy_function(handle, func, stub_name,
                                                  url_error, attach, rnd)]

(* --------------------------- specifications --------------------------- *)

\* The variables of the direct calls of the deployer and of the web
\* application.
extraVars == <<deployerVars, webVars>>

ExtraIdle ==
    /\ DeployerIdle
    /\ WebIdle

\* The variables of the parts that come after dependency enrichment.
laterVars ==
    <<urlVars, configVars, endpointVars, threadVars, requestVars, extraVars>>

\* Those parts at rest.
LaterIdle ==
    /\ UrlIdle
    /\ ConfigIdle
    /\ BareEnvironment
    /\ EndpointIdle
    /\ ExtraIdle
    /\ ThreadsIdle
    /\ RequestsIdle

vars == <<authVars, deployVars, oauthVars, enhanceVars, laterVars>>

\* The installation the other parts run in: the libraries are installed,
\* a client id is configured and FC_REDIRECT_URL is not set.
OAuthConfigured ==
    /\ HAS_OAUTH = TRUE
    /\ GOOGLE_CLIENT_ID = "client-id"
    /\ REDIRECT_URL = DefaultRedirect

\* The token store alone: a process that invokes no wrapped function.
InitAuth ==
    /\ InitTokens
    /\ InitWrapper
    /\ func = AddFunc
    /\ HAS_MODAL = TRUE
    /\ InitOAuth
    /\ OAuthConfigured
    /\ InitEnhance
    /\ EnhanceIdle
    /\ LaterIdle

generate_token ==
    GenerateToken /\ UNCHANGED <<deployVars, oauthVars, enhanceVars, laterVars>>
validate_token_call ==
    ValidateToken /\ UNCHANGED <<deployVars, oauthVars, enhanceVars, laterVars>>
revoke_token_call ==
    RevokeToken /\ UNCHANGED <<deployVars, oauthVars, enhanceVars, laterVars>>
clock_tick == Tick /\ UNCHANGED <<deployVars, oauthVars, enhanceVars, laterVars>>

NextAuth ==
    \/ generate_token
    \/ validate_token_call
    \/ revoke_token_call
    \/ clock_tick

SpecAuth == InitAuth /\ [][NextAuth]_vars

\* One wrapped function alone: the token store is not touched.
InitDeploy ==
    /\ InitTokens
    /\ InitWrapper
    /\ InitOAuth
    /\ OAuthConfigured
    /\ InitEnhance
    /\ EnhanceIdle
    /\ LaterIdle

wrapper_call == Invoke /\ UNCHANGED <<authVars, oauthVars, enhanceVars, laterVars>>
get_url_call == GetUrl /\ UNCHANGED <<authVars, oauthVars, enhanceVars, laterVars>>

NextDeploy ==
    \/ wrapper_call
    \/ get_url_call

SpecDeploy == InitDeploy /\ [][NextDeploy]_vars

\* The OAuth flow of one FCAuth object: no wrapped function is invoked and
\* the token store changes only through the tokens the callbacks mint.
InitOAuthFlow ==
    /\ InitTokens
    /\ InitWrapper
    /\ func = AddFunc
    /\ HAS_MODAL = TRUE
    /\ InitOAuth
    /\ InitEnhance
    /\ EnhanceIdle
    /\ LaterIdle

get_google_auth_url_call ==
    GetGoogleAuthUrl /\ UNCHANGED <<deployVars, enhanceVars, laterVars>>
handle_google_callback_call ==
    HandleGoogleCallback /\ UNCHANGED <<deployVars, enhanceVars, laterVars>>

NextOAuth ==
    \/ get_google_auth_url_call
    \/ handle_google_callback_call

SpecOAuth == InitOAuthFlow /\ [][NextOAuth]_vars

\* enhance_with_llm as a function of its arguments, the configuration and
\* the provider's behaviour: called directly, on any function object.
InitEnhanceOnly ==
    /\ InitTokens
    /\ InitWrapper
    /\ HAS_MODAL = TRUE
    /\ InitOAuth
    /\ OAuthConfigured
    /\ InitEnhance
    /\ LaterIdle

enhance_with_llm_call ==
    Enhance /\ UNCHANGED <<authVars, deployVars, oauthVars, laterVars>>

create_modal_function_call ==
    CreateModalFunction
        /\ UNCHANGED <<authVars, deployVars, oauthVars, laterVars>>

NextEnhance ==
    \/ enhance_with_llm_call
    \/ create_modal_function_call

SpecEnhance == InitEnhanceOnly /\ [][NextEnhance]_vars

\* The URL manager called again and again while the clock runs, under one
\* stub name.
InitUrl ==
    /\ InitTokens
    /\ func = AddFunc
    /\ HAS_MODAL = TRUE
    /\ stub_name \in StubNames
    /\ attrs = NoAttrs
    /\ calls = [wrapper |-> 0, returned |-> 0, steps |-> NoSteps]
    /\ lastCall = NoCall
    /\ lastGet = NoGet
    /\ urlLog = {}
    /\ InitOAuth
    /\ OAuthConfigured
    /\ InitEnhance
    /\ EnhanceIdle
    /\ UrlIdle
    /\ ConfigIdle
    /\ BareEnvironment
    /\ EndpointIdle
    /\ ExtraIdle
    /\ ThreadsIdle
    /\ RequestsIdle

generate_url_path_call ==
    GenerateUrlPath
        /\ UNCHANGED <<authVars, deployVars, oauthVars, enhanceVars, configVars,
                       endpointVars, threadVars, requestVars, extraVars>>

NextUrl ==
    \/ generate_url_path_call
    \/ clock_tick

SpecUrl == InitUrl /\ [][NextUrl]_vars

\* FC.configure calls and decorations in any order, in any environment.
InitConfig ==
    /\ InitTokens
    /\ InitWrapper
    /\ func = AddFunc
    /\ HAS_MODAL = TRUE
    /\ InitOAuth
    /\ OAuthConfigured
    /\ InitEnhance
    /\ EnhanceIdle
    /\ UrlIdle
    /\ ConfigIdle
    /\ EndpointIdle
    /\ ExtraIdle
    /\ ThreadsIdle
    /\ RequestsIdle

configure_call ==
    Configure
        /\ UNCHANGED <<authVars, deployVars, oauthVars, enhanceVars, urlVars,
                       endpointVars, threadVars, requestVars, extraVars>>
function_decoration ==
    Decorate
        /\ UNCHANGED <<authVars, deployVars, oauthVars, enhanceVars, urlVars,
                       endpointVars, threadVars, requestVars, extraVars>>

NextConfig ==
    \/ configure_call
    \/ function_decoration

SpecConfig == InitConfig /\ [][NextConfig]_vars

\* The tokens file FC.configure may find: not there; with the record of
\* "user_tok", generated at clock reading 0; with that record revoked.
IssuedStores ==
    {NoFile,
     _save_token(NoFile, "user_tok", "id1", 0, 0),
     revoke_token(_save_token(NoFile, "user_tok", "id1", 0, 0), "user_tok").file}

\* FC.configure calls about the token, and decorations, while the clock
\* runs, over a token
\* store that may hold the token the caller passes; MODAL_TOKEN is the only
\* setting the environment may have, and there is no configuration file.
InitConfigStore ==
    /\ tokensFile \in IssuedStores
    /\ now = 0
    /\ everIssued = {_load_tokens(tokensFile)[i].token :
                        i \in 1..Len(_load_tokens(tokensFile))}
    /\ everIds = {_load_tokens(tokensFile)[i].id :
                        i \in 1..Len(_load_tokens(tokensFile))}
    /\ revoked = {_load_tokens(tokensFile)[i].token :
                        i \in {k \in 1..Len(_load_tokens(tokensFile)) :
                                    ~_load_tokens(tokensFile)[k].active}}
    /\ lastOp = NoOp
    /\ InitWrapper
    /\ func = AddFunc
    /\ HAS_MODAL = TRUE
    /\ InitOAuth
    /\ OAuthConfigured
    /\ InitEnhance
    /\ EnhanceIdle
    /\ UrlIdle
    /\ ConfigIdle
    /\ environ.MODAL_TOKEN_ID = ""
    /\ environ.GROQ_API_KEY = ""
    /\ environ.FC_MEMORY = <<>>
    /\ ~configFile.exists
    /\ EndpointIdle
    /\ ExtraIdle
    /\ ThreadsIdle
    /\ RequestsIdle

configure_token_call ==
    ConfigureToken
        /\ UNCHANGED <<authVars, deployVars, oauthVars, enhanceVars, urlVars,
                       endpointVars, threadVars, requestVars, extraVars>>

NextConfigStore ==
    \/ configure_token_call
    \/ function_decoration
    \/ clock_tick

SpecConfigStore == InitConfigStore /\ [][NextConfigStore]_vars

\* deploy_function called directly, on the handle of any function and under
\* either stub name.
InitDeployer ==
    /\ InitTokens
    /\ func \in Functions
    /\ HAS_MODAL = TRUE
    /\ stub_name \in StubNames
    /\ attrs = NoAttrs
    /\ calls = [wrapper |-> 0, returned |-> 0, steps |-> NoSteps]
    /\ lastCall = NoCall
    /\ lastGet = NoGet
    /\ urlLog = {}
    /\ InitOAuth
    /\ OAuthConfigured
    /\ InitEnhance
    /\ EnhanceIdle
    /\ LaterIdle

deploy_function_call ==
    DeployFunction
        /\ UNCHANGED <<authVars, deployVars, oauthVars, enhanceVars, urlVars,
                       configVars, endpointVars, threadVars, requestVars,
                       webVars>>

NextDeployer ==
    \/ deploy_function_call

SpecDeployer == InitDeployer /\ [][NextDeployer]_vars

\* The web application over one FCAuth object: logins through the OAuth
\* flow and token refreshes of the users who are logged in.
InitWeb ==
    /\ InitTokens
    /\ InitWrapper
    /\ func = AddFunc
    /\ HAS_MODAL = TRUE
    /\ InitOAuth
    /\ OAuthConfigured
    /\ InitEnhance
    /\ EnhanceIdle
    /\ LaterIdle

refresh_token_call ==
    RefreshToken
        /\ UNCHANGED <<deployVars, enhanceVars, urlVars, configVars,
                       endpointVars, threadVars, requestVars, deployerVars>>

NextWeb ==
    \/ get_google_auth_url_call
    \/ handle_google_callback_call
    \/ refresh_token_call

SpecWeb == InitWeb /\ [][NextWeb]_vars

\* Requests to the HTTP-triggered variant of greet, registered by FC.endpoint.
InitEndpoint ==
    /\ InitTokens
    /\ InitWrapper
    /\ func = GreetFunc
    /\ HAS_MODAL = TRUE
    /\ InitOAuth
    /\ OAuthConfigured
    /\ InitEnhance
    /\ EnhanceIdle
    /\ UrlIdle
    /\ ConfigIdle
    /\ BareEnvironment
    /\ EndpointIdle
    /\ ExtraIdle
    /\ ThreadsIdle
    /\ RequestsIdle

endpoint_func_call ==
    HandleRequest
        /\ UNCHANGED <<authVars, deployVars, oauthVars, enhanceVars, urlVars,
                       configVars, threadVars, requestVars, extraVars>>

NextEndpoint ==
    \/ endpoint_func_call

SpecEndpoint == InitEndpoint /\ [][NextEndpoint]_vars

\* Several threads make the first call of one wrapped function at the same
\* time; their statements interleave.
InitThreads ==
    /\ InitTokens
    /\ InitWrapper
    /\ InitOAuth
    /\ OAuthConfigured
    /\ InitEnhance
    /\ EnhanceIdle
    /\ UrlIdle
    /\ ConfigIdle
    /\ BareEnvironment
    /\ EndpointIdle
    /\ ExtraIdle
    /\ ThreadsCalling
    /\ RequestsIdle

\* What a statement of wrapper leaves alone besides attrs.
WrapperFrame ==
    UNCHANGED <<authVars, func, HAS_MODAL, stub_name, calls, lastCall, lastGet,
                urlLog, oauthVars, enhanceVars, urlVars, configVars,
                endpointVars, requestVars, extraVars>>

check_deployed == CheckDeployed /\ WrapperFrame
run_pipeline == RunPipeline /\ WrapperFrame
set_deployed == SetDeployed /\ WrapperFrame
set_url == SetUrl /\ WrapperFrame
set_modal_func == SetModalFunc /\ WrapperFrame
fallback_deployed == FallbackDeployed /\ WrapperFrame
fallback_url == FallbackUrl /\ WrapperFrame
run_locally == RunLocally /\ WrapperFrame

NextThreads ==
    \/ check_deployed
    \/ run_pipeline
    \/ set_deployed
    \/ set_url
    \/ set_modal_func
    \/ fallback_deployed
    \/ fallback_url
    \/ run_locally

SpecThreads == InitThreads /\ [][NextThreads]_vars

\* Several requests call generate_token and revoke_token on one tokens file
\* at the same time; their statements interleave.
InitRequests ==
    /\ InitTokens
    /\ InitWrapper
    /\ func = AddFunc
    /\ HAS_MODAL = TRUE
    /\ InitOAuth
    /\ OAuthConfigured
    /\ InitEnhance
    /\ EnhanceIdle
    /\ UrlIdle
    /\ ConfigIdle
    /\ BareEnvironment
    /\ EndpointIdle
    /\ ExtraIdle
    /\ ThreadsIdle
    /\ RequestsIdle

\* What a statement of the token store leaves alone.
StoreFrame ==
    UNCHANGED <<deployVars, oauthVars, enhanceVars, urlVars, configVars,
                endpointVars, threadVars, extraVars>>

begin_generate_token == BeginGenerate /\ StoreFrame
begin_revoke_token == BeginRevoke /\ StoreFrame
load_tokens == LoadTokens /\ StoreFrame
write_new_token == WriteNewToken /\ StoreFrame
write_revocation == WriteRevocation /\ StoreFrame

NextRequests ==
    \/ begin_generate_token
    \/ begin_revoke_token
    \/ load_tokens
    \/ write_new_token
    \/ write_revocation

SpecRequests == InitRequests /\ [][NextRequests]_vars

(* ------------------- claims on the deployment wrapper ----------------- *)

Segments(url) == {url[i] : i \in 1..Len(url)}

\* C1: after N >= 1 invocations the deployment pipeline has been entered
\* exactly once (by the first), none of its steps (analyze_imports,
\* enhance_with_llm, create_modal_function, deploy_function) has run twice,
\* and every get_url() call made after an invocation returned one and the
\* same URL.
C1_AtMostOnceDeployment ==
    /\ calls.wrapper >= 1 => calls.steps.attempt = 1
    /\ calls.steps.analyze <= 1
    /\ calls.steps.enhance <= 1
    /\ calls.steps.create <= 1
    /\ calls.steps.deploy <= 1
    /\ \A r \in urlLog : ~r.raised
    /\ Cardinality(urlLog) <= 1

\* C2: an invocation whose deployment attempt met a failing platform (a
\* platform error, or the missing library) still ran the function locally
\* and returned its result.
C2_LocalExecutionIndependence ==
    (lastCall.done /\ lastCall.failure \in {"PlatformError", "ImportError"})
        => (~lastCall.raised /\ lastCall.value = Body(func, lastCall.args))

\* C3: after an invocation whose deployment attempt failed (in the image
\* build or registration, or in the URL computation) the function is marked
\* deployed and has a URL, and create_modal_function is never run again.
C3_FailedAttemptMarksDeployed ==
    /\ (lastCall.done /\ lastCall.failure \in {"PlatformError", "ImportError", "url"})
        => (attrs.has_deployed /\ attrs.deployed /\ attrs.has_url)
    /\ calls.steps.create <= 1

\* C4: every invocation runs the original function exactly once with the
\* caller's arguments and returns its result.
C4_AlwaysRunsLocally ==
    /\ calls.steps.local = calls.wrapper
    /\ lastCall.done =>
        (~lastCall.raised /\ lastCall.value = Body(func, lastCall.args))

C6_EndpointUrlNamesFunction ==
    (/\ func = GreetFunc
     /\ calls.wrapper = 1
     /\ lastCall.args = <<"World">>
     /\ ~lastCall.raised
     /\ lastCall.attempted
     /\ lastCall.failure = "none")
        => /\ lastCall.value = DictValue(<<"Hello, ", "World", "!">>)
           /\ ~get_url(attrs).raised
           /\ "greet" \in Segments(get_url(attrs).url)
           /\ MD5_8(func.source) \in Segments(get_url(attrs).url)

(* ----------------------- claims on the token store --------------------- *)

Records == _load_tokens(tokensFile)

\* C7: a token that generate_token has just returned validates, as long as
\* no other call on the store came in between and the clock has advanced by
\* less than 30 days since generate_token returned (lastOp.at: the clock
\* reading that set the record's expires_at, the last one of the call).
C7_FreshTokenValidates ==
    (lastOp.op = "generate" /\ now - lastOp.at < TokenLifetime)
        => validate_token(tokensFile, lastOp.token, now)

\* C7 witness: generate_token returned into a store that already held a
\* record, the clock has advanced since, and the precondition still holds.
C7_Witness ==
    /\ lastOp.op = "generate"
    /\ now = lastOp.at + ClockStep
    /\ Len(Records) = 2

\* C8: once revoke_token(t) has returned True, validate_token(t) is False in
\* every later state, whatever generate, validate and revoke calls follow,
\* and every record holding t stays inactive.
C8_RevokedStaysInvalid ==
    \A t \in revoked :
        /\ ~validate_token(tokensFile, t, now)
        /\ \A i \in 1..Len(Records) : Records[i].token = t => ~Records[i].active

\* C8 witness: a revoked token whose record has not expired, after a later
\* generate_token call on the same store.
C8_Witness ==
    /\ lastOp.op = "generate"
    /\ \E i \in 1..Len(Records) :
        /\ Records[i].token \in revoked
        /\ Records[i].token # lastOp.token
        /\ Records[i].expires_at > now

\* C9: validate_token(t) returns True exactly when some record has token t,
\* is active and has expires_at strictly later than the clock reading of the
\* call; it returns False otherwise.
C9_ValidateIff ==
    lastOp.op = "validate" =>
        (lastOp.result <=>
            \E i \in 1..Len(Records) :
                /\ Records[i].token = lastOp.token
                /\ Records[i].active
                /\ Records[i].expires_at > lastOp.at)

\* C9 witness: validate_token returned False for an active record whose
\* expires_at equals the clock reading of the call.
C9_Witness ==
    /\ lastOp.op = "validate"
    /\ ~lastOp.result
    /\ \E i \in 1..Len(Records) :
        /\ Records[i].token = lastOp.token
        /\ Records[i].active
        /\ Records[i].expires_at = lastOp.at

SameIdentity(r, s) ==
    /\ r.id = s.id
    /\ r.token = s.token
    /\ r.created_at = s.created_at
    /\ r.expires_at = s.expires_at

\* C10: no step deletes a token record or changes its token value, creation
\* time or expiry time; a generate_token step adds exactly one record, under
\* an id no record had; a revoke_token step changes at most the active flag
\* of one record; no other step changes the store.
C10_NoRecordDeleted ==
    [][LET old == _load_tokens(tokensFile)
           new == _load_tokens(tokensFile')
       IN  /\ \A i \in 1..Len(old) :
                \E j \in 1..Len(new) : SameIdentity(old[i], new[j])
           /\ (lastOp'.op = "generate" /\ lastOp' # lastOp) =>
                /\ Len(new) = Len(old) + 1
                /\ SubSeq(new, 1, Len(old)) = old
                /\ \A i \in 1..Len(old) : old[i].id # new[Len(new)].id
           /\ (lastOp'.op = "revoke" /\ lastOp' # lastOp) =>
                /\ Len(new) = Len(old)
                /\ Cardinality({i \in 1..Len(old) : new[i] # old[i]}) <= 1
           /\ (lastOp'.op \notin {"generate", "revoke"} \/ lastOp' = lastOp) =>
                new = old
      ]_vars

\* C10 witness: a revoked record is still in the store, followed by a record
\* that a later generate_token added.
C10_Witness ==
    /\ lastOp.op = "generate"
    /\ Len(Records) = 2
    /\ ~Records[1].active
    /\ Records[1].token \in revoked

\* C11: revoke_token(t) returns True exactly when some stored record holds
\* the token value t, active or not; when it returns False the token store
\* is left as it was.
C11_RevokeReportsMatch ==
    [][revoke_token_call =>
          /\ lastOp'.result <=>
                \E i \in 1..Len(Records) : Records[i].token = lastOp'.token
          /\ ~lastOp'.result => tokensFile' = tokensFile]_vars

\* A revocation that reports True for a record that is inactive, in a store
\* that also holds another record.
C11_Witness ==
    /\ lastOp.op = "revoke"
    /\ lastOp.result
    /\ Len(Records) = 2
    /\ \E i \in 1..2 : Records[i].token = lastOp.token /\ ~Records[i].active

(* ------------------------ claims on the OAuth flow --------------------- *)

\* A step in which handle_google_callback ran. Every such call that changes
\* anything also changes lastAuth (it finds a state file that the previous
\* call cannot have found, or mints a token never seen before).
CallbackStep == lastAuth' # lastAuth /\ lastAuth'.op = "callback"

\* A step in which get_google_auth_url ran.
AuthUrlStep == lastAuth' # lastAuth /\ lastAuth'.op = "auth_url"

\* C12: of all the callbacks that carry the nonce persisted by one
\* get_google_auth_url call, at most one finds the persisted entry; the
\* entry is gone once it was found, so a later callback does not find it.
C12_StateSingleUse ==
    \A n \in Nonces :
        /\ consumed[n] <= 1
        /\ consumed[n] = 1 => (n \in everStates /\ n \notin DOMAIN stateFiles)

\* A second callback with a nonce whose entry an earlier callback consumed:
\* it did not find the entry.
C12_Witness ==
    /\ lastAuth.op = "callback"
    /\ lastAuth.state \in Nonces
    /\ consumed[lastAuth.state] = 1
    /\ ~lastAuth.found

\* C13: a callback ends in success only when its state is a nonce that an
\* earlier get_google_auth_url call persisted and no callback has consumed;
\* with a missing, unknown or consumed state it never ends in success.
C13_VerifiedNeedsLiveState ==
    (lastAuth.op = "callback" /\ lastAuth.success) => lastAuth.found

\* The user-info request was answered with a document that says the email
\* is verified.
ReportsVerified(idp) == idp.userinfo = "ok" /\ idp.email_verified

\* C14: a callback that returns gives success exactly when the user-info
\* document reports the email as verified; otherwise it gives (False, a
\* non-empty reason, {}), mints no token and leaves the credentials alone.
C14_SuccessOnlyIfVerified ==
    [][CallbackStep =>
          /\ lastAuth'.success => ReportsVerified(lastAuth'.idp)
          /\ (lastAuth'.raised = "none" /\ ~ReportsVerified(lastAuth'.idp)) =>
                /\ ~lastAuth'.success
                /\ lastAuth'.message # ""
                /\ lastAuth'.identity = EmptyDict
                /\ lastAuth'.minted = <<>>
                /\ tokensFile' = tokensFile
                /\ credentialsFile' = credentialsFile]_vars

\* A callback rejected for an unverified email, after an earlier callback
\* had stored a token and a credential set.
C14_Witness ==
    /\ lastAuth.op = "callback"
    /\ lastAuth.raised = "none"
    /\ ~lastAuth.success
    /\ lastAuth.idp.userinfo = "ok"
    /\ ~lastAuth.idp.email_verified
    /\ Len(Records) >= 1
    /\ DOMAIN credentialsFile # {}

\* C15: a callback that ends in success stores exactly one new token record,
\* with a token never issued before, and sets the entry of the identity's
\* subject id in the credentials to that token, leaving the other entries
\* alone; right after the call validate_token accepts the entry's token.
C15_VerifiedMintsAndUpserts ==
    [][(CallbackStep /\ lastAuth'.success) =>
          /\ Len(lastAuth'.minted) = 1
          /\ lastAuth'.minted[1] \notin everIssued
          /\ Len(Records') = Len(Records) + 1
          /\ SubSeq(Records', 1, Len(Records)) = Records
          /\ Records'[Len(Records')].token = lastAuth'.minted[1]
          /\ DOMAIN credentialsFile' =
                DOMAIN credentialsFile \cup {lastAuth'.idp.user.sub}
          /\ credentialsFile'[lastAuth'.idp.user.sub].token =
                lastAuth'.minted[1]
          /\ \A u \in DOMAIN credentialsFile \ {lastAuth'.idp.user.sub} :
                credentialsFile'[u] = credentialsFile[u]
          /\ validate_token(tokensFile',
                 credentialsFile'[lastAuth'.idp.user.sub].token, now')]_vars

\* The same subject has signed in twice: two token records, one entry, and
\* the entry holds the token of the second sign-in.
C15_Witness ==
    /\ lastAuth.op = "callback"
    /\ lastAuth.success
    /\ Len(Records) = 2
    /\ DOMAIN credentialsFile = {lastAuth.identity.sub}
    /\ credentialsFile[lastAuth.identity.sub].token = Records[2].token

\* What a get_google_auth_url call that returns has done, for the redirect
\* URI uri it is expected to persist: one new state file, under a nonce never
\* drawn before, holding uri; the URL carries the nonce and the three scopes.
PersistsOneState(uri) ==
    /\ lastAuth'.state \in Nonces \ everStates
    /\ lastAuth'.state \notin DOMAIN stateFiles
    /\ DOMAIN stateFiles' = DOMAIN stateFiles \cup {lastAuth'.state}
    /\ \A s \in DOMAIN stateFiles : stateFiles'[s] = stateFiles[s]
    /\ stateFiles'[lastAuth'.state].redirect_uri = uri
    /\ lastAuth'.url.state = lastAuth'.state
    /\ lastAuth'.url.scope = <<"openid", "email", "profile">>

\* C16 as stated: the state entry maps the nonce to the redirect URI the
\* caller supplied.
C16_StateMapsCallerUri ==
    [][(AuthUrlStep /\ lastAuth'.raised = "none") =>
          PersistsOneState(lastAuth'.redirect_uri)]_vars

\* C16: get_google_auth_url persists exactly one state entry, mapping a
\* fresh nonce to REDIRECT_URL when that is not empty and to the caller's
\* redirect URI otherwise; the URL carries the nonce as state and the scopes
\* openid, email, profile.
C16_StateMapsConfiguredUri ==
    [][(AuthUrlStep /\ lastAuth'.raised = "none") =>
          PersistsOneState(IF REDIRECT_URL # "" THEN REDIRECT_URL
                           ELSE lastAuth'.redirect_uri)]_vars

\* A second URL was handed out with REDIRECT_URL configured, while the state
\* entry of the first is still there.
C16_Witness ==
    /\ lastAuth.op = "auth_url"
    /\ lastAuth.raised = "none"
    /\ REDIRECT_URL = DefaultRedirect
    /\ lastAuth.redirect_uri = CallerRedirect
    /\ Cardinality(DOMAIN stateFiles) = 2
    /\ stateFiles[lastAuth.state].redirect_uri = DefaultRedirect

\* C17: without a client id get_google_auth_url raises (ValueError when the
\* OAuth libraries are installed, ImportError when they are not), persists
\* no state entry and sends no request.
C17_NoClientIdFails ==
    [][(AuthUrlStep /\ GOOGLE_CLIENT_ID = "") =>
          /\ lastAuth'.raised \in {"ValueError", "ImportError"}
          /\ HAS_OAUTH => lastAuth'.raised = "ValueError"
          /\ lastAuth'.requests = <<>>
          /\ stateFiles' = stateFiles
          /\ everStates' = everStates]_vars

\* get_google_auth_url raised ValueError for the missing client id.
C17_Witness ==
    /\ lastAuth.op = "auth_url"
    /\ GOOGLE_CLIENT_ID = ""
    /\ HAS_OAUTH
    /\ lastAuth.raised = "ValueError"
    /\ stateFiles = <<>>

\* One of the requests the call sent did not get a usable answer.
FailedRequest(a) ==
    \/ "discovery" \in {a.requests[i] : i \in DOMAIN a.requests}
          /\ a.idp.discovery # "ok"
    \/ "token" \in {a.requests[i] : i \in DOMAIN a.requests}
          /\ a.idp.token # "ok"
    \/ "userinfo" \in {a.requests[i] : i \in DOMAIN a.requests}
          /\ a.idp.userinfo # "ok"

\* C18: a callback in which the discovery request, the token exchange or
\* the user-info request fails raises, and it creates no token record and
\* leaves the credentials alone.
C18_RequestFailurePropagates ==
    [][(CallbackStep /\ FailedRequest(lastAuth')) =>
          /\ lastAuth'.raised # "none"
          /\ tokensFile' = tokensFile
          /\ credentialsFile' = credentialsFile]_vars

(* --------------------- claims on dependency analysis ------------------- *)

\* The cases in which enhance_with_llm is to fall back: enrichment is off,
\* no API key, the provider is not there, the client or the request raises,
\* or the answer holds no structured payload.
FallbackCase(l) ==
    \/ ~l.enabled
    \/ ~l.api_key
    \/ l.provider # "groq"
    \/ ~l.has_groq
    \/ l.client = "throws"
    \/ l.call = "throws"
    \/ l.response = "no_json"

\* The elements of a sequence.
Range(seq) == {seq[i] : i \in 1..Len(seq)}

\* C19: in a fallback case enhance_with_llm(func, imports) does not raise
\* and returns a manifest whose packages are exactly the imports it was
\* given.
C19_FallbackIsStatic ==
    (enhanceResult.done /\ FallbackCase(llmEnv)) =>
        /\ ~enhanceResult.raised
        /\ Range(enhanceResult.manifest.packages) = givenImports
        /\ Len(enhanceResult.manifest.packages) = Cardinality(givenImports)

\* C20: for a function without retrievable source text analyze_imports
\* returns the empty set without raising, and the first call of the wrapper
\* returns without an error.
C20_NoSourceNoFailure ==
    (func.srcKind = "none" /\ lastCall.done) =>
        /\ ~analyze_imports(func).raised
        /\ analyze_imports(func).imports = {}
        /\ calls.wrapper = 1 => ~lastCall.raised

(* ------------------------ claims on the URL manager -------------------- *)

\* Two logged calls were made on functions with the same module, name and
\* source text.
SameText(a, b) ==
    /\ a.func.module = b.func.module
    /\ a.func.name = b.func.name
    /\ a.func.source = b.func.source

\* C21: two generate_url_path calls on functions with the same module, the
\* same name and the same retrievable source text return the same path, and
\* under the same stub name function_to_endpoint gives the same URL.
C21_SameTextSamePath ==
    \A i, j \in 1..Len(pathLog) :
        (/\ SameText(pathLog[i], pathLog[j])
         /\ pathLog[i].func.srcKind # "none"
         /\ pathLog[j].func.srcKind # "none")
            => /\ pathLog[i].path = pathLog[j].path
               /\ pathLog[i].stub = pathLog[j].stub
                    => pathLog[i].url = pathLog[j].url

\* The path of greet was computed twice, at different times, and an edit of
\* add got another path than add.
C21_Witness ==
    /\ Len(pathLog) = 2
    /\ pathLog[1].func = GreetFunc
    /\ pathLog[2].func = GreetFunc
    /\ pathLog[1].at < pathLog[2].at
    /\ pathLog[1].url = pathLog[2].url
    /\ generate_url_path(AddFunc, "-") # generate_url_path(EditedAddFunc, "-")

\* C30: two paths computed for functions without source text, with the same
\* module and name, are different.
C30_FallbackNeverReused ==
    \A i, j \in 1..Len(pathLog) :
        (/\ i < j
         /\ SameText(pathLog[i], pathLog[j])
         /\ pathLog[i].func.srcKind = "none")
            => pathLog[i].path # pathLog[j].path

(* ------------------------- configuration claims ------------------------ *)

\* No platform token in the environment, in the configuration file or in any
\* FC.configure call so far.
NoTokenAnywhere ==
    /\ environ.MODAL_TOKEN = ""
    /\ environ.MODAL_TOKEN_ID = ""
    /\ environ.MODAL_TOKEN_SECRET = ""
    /\ ~Given(configFile.token)
    /\ ~tokenPassed

\* C24: a decoration made while no platform token can be found anywhere
\* fails with the configuration error (ValueError).
C24_NoTokenDecorationFails ==
    (lastConfig.op = "function" /\ NoTokenAnywhere)
        => lastConfig.raised = "ValueError"

\* The last step was an FC.configure call with a token that returned.
ConfigureReturned ==
    /\ lastConfig.op = "configure"
    /\ lastConfig.raised = "none"
    /\ Truthy(lastConfig.token)

\* The passed options other than llm_api_key are in the configuration as
\* passed, and so is the token.
TokenAndPlainOptionsKept ==
    /\ cfg.token = lastConfig.token
    /\ Given(lastConfig.kwargs.memory)
        => cfg.memory = lastConfig.kwargs.memory[1]
    /\ Given(lastConfig.kwargs.llm_enabled)
        => cfg.llm_enabled = lastConfig.kwargs.llm_enabled[1]
    /\ Given(lastConfig.kwargs.validate_token)
        => cfg.validate_token = lastConfig.kwargs.validate_token[1]

MissingPackagesCase ==
    /\ enhanceResult.done
    /\ func.srcKind # "none"
    /\ llmEnv.enabled /\ llmEnv.api_key
    /\ llmEnv.provider = "groq" /\ llmEnv.has_groq
    /\ llmEnv.client = "ok" /\ llmEnv.call = "ok"
    /\ llmEnv.response \in {"json_no_packages", "json_packages_not_list"}

\* C27: when the parsed answer has no "packages" field, or one that is not
\* a list, enhance_with_llm returns the parsed answer with "packages" set to
\* the static import list and its other fields as they were.
C27_MissingPackagesReplaced ==
    MissingPackagesCase =>
        /\ ~enhanceResult.raised
        /\ Range(enhanceResult.manifest.packages) = givenImports
        /\ Len(enhanceResult.manifest.packages) = Cardinality(givenImports)
        /\ enhanceResult.manifest.system_dependencies
                = Answer(llmEnv.response).system_dependencies
        /\ enhanceResult.manifest.python_version
                = Answer(llmEnv.response).python_version

C27_Witness ==
    /\ MissingPackagesCase
    /\ llmEnv.response = "json_packages_not_list"
    /\ givenImports = {"requests", "numpy"}
    /\ Len(enhanceResult.manifest.packages) = 2
    /\ enhanceResult.manifest.python_version = "3.9"

NoDuplicate(list) ==
    \A i, j \in 1..Len(list) : list[i] = list[j] => i = j

OnlyStrings(list) ==
    \A i \in 1..Len(list) : list[i].type = "str" /\ list[i] # Str(NoneVal)

\* C28: the package list and the system-dependency list handed to the image
\* build hold only strings, no null entry and no entry twice.
C28_ImageListsClean ==
    (imageBuild.done /\ imageBuild.image.built) =>
        /\ OnlyStrings(imageBuild.image.pip_install)
        /\ OnlyStrings(imageBuild.image.apt_install)
        /\ NoDuplicate(imageBuild.image.pip_install)
        /\ NoDuplicate(imageBuild.image.apt_install)

(* ------------------------ HTTP-triggered variant claims ---------------- *)

JsonTypes == {<<"application/json">>, <<"application/json", "; charset=utf-8">>}
FormTypes == {<<"application/x-www-form-urlencoded">>}

C22_OneThreadDeploys ==
    /\ Cardinality({t \in Threads : ran[t] > 0}) <= 1
    /\ Cardinality(writers._fc_deployed) <= 1
    /\ Cardinality(writers._fc_url) <= 1
    /\ Cardinality(writers._fc_modal_func) <= 1

Deployed == attrs.has_deployed /\ attrs.deployed

\* C26 as stated: in every reachable state of a wrapped function the
\* deployed flag implies an attached URL.
C26_DeployedHasUrl ==
    Deployed => attrs.has_url

\* No thread is between the assignments that follow the pipeline.
NoAssignmentPending ==
    \A t \in Threads :
        pc[t] \notin {"set_deployed", "set_url", "set_modal_func",
                      "fallback_deployed", "fallback_url"}

\* C26 amended: whenever no call is between the wrapper's assignments, the
\* deployed flag implies an attached URL; the flag is set only by a thread
\* whose build, registration and URL steps have returned, or that is in the
\* ImportError handler; and the flag is never reset.
C26_DeployedHasUrlAtRest ==
    /\ []((NoAssignmentPending /\ Deployed) => attrs.has_url)
    /\ [][/\ Deployed => Deployed'
          /\ (~Deployed /\ Deployed') =>
                \E t \in Threads :
                    /\ pc'[t] # pc[t]
                    /\ ran[t] > 0
                    /\ \/ pc[t] = "set_deployed" /\ locals[t].url # <<>>
                       \/ pc[t] = "fallback_deployed" /\ ~HAS_MODAL]_vars

\* An endpoint function after every thread has returned: deployed, with the
\* URL the wrapper attached.
C26_Witness ==
    /\ func.endpoint
    /\ \A t \in Threads : pc[t] = "returned"
    /\ Deployed
    /\ attrs.has_url
    /\ attrs.url = locals[1].url \/ attrs.url = locals[2].url

(* --------------------- concurrent token store requests ---------------- *)

\* C23: when generate_token and revoke_token calls interleave on one tokens
\* file, every record of a completed generate_token is in the file and every
\* token revoked by a completed revoke_token has a record that is inactive.
C23_NoLostUpdates ==
    LET records == _load_tokens(tokensFile)
    IN  /\ \A token \in generated :
            \E i \in 1..Len(records) : records[i].token = token
        /\ \A token \in revoked :
            \E i \in 1..Len(records) :
                records[i].token = token /\ ~records[i].active

(* ----------------------- token store claims, continued ----------------- *)

\* C32: every record generate_token persists is active and expires exactly
\* 30 days after its own creation time, also when the clock advances while
\* the record is built.
C32_ExpiryIsCreationPlusLifetime ==
    [][generate_token =>
          LET record == _load_tokens(tokensFile')[Len(_load_tokens(tokensFile'))]
          IN  /\ record.active
              /\ record.expires_at = record.created_at + TokenLifetime]_vars

\* C39: validate_token is read-only: whatever the token, a call leaves the
\* tokens file and the credentials mapping as they were.
C39_ValidateIsReadOnly ==
    [][validate_token_call =>
          /\ tokensFile' = tokensFile
          /\ credentialsFile' = credentialsFile]_vars

\* A call that accepted a token and one made before the tokens file exists.
C39_Witness ==
    /\ lastOp.op = "validate"
    /\ \/ lastOp.result /\ Len(Records) = 2
       \/ ~lastOp.result /\ ~tokensFile.exists

(* --------------------- OAuth flow claims, continued -------------------- *)

\* C37: a callback that gets as far as the provider leaves no state entry
\* for its nonce, whether it ends VERIFIED, REJECTED or with an error of the
\* exchange, and leaves the entries of every other nonce as they were.
C37_StateConsumedFirst ==
    [][(CallbackStep /\ lastAuth'.raised \notin {"ImportError", "ValueError"})
          => /\ lastAuth'.state \notin DOMAIN stateFiles'
             /\ \A s \in DOMAIN stateFiles \ {lastAuth'.state} :
                    /\ s \in DOMAIN stateFiles'
                    /\ stateFiles'[s] = stateFiles[s]]_vars

\* A callback whose exchange failed after it had found its entry, with the
\* entry of another nonce still there.
C37_Witness ==
    /\ lastAuth.op = "callback"
    /\ lastAuth.raised \in {"ConnectionError", "OAuth2Error"}
    /\ lastAuth.found
    /\ lastAuth.state \notin DOMAIN stateFiles
    /\ DOMAIN stateFiles # {}

\* C38: the credentials mapping has one entry per subject id; a VERIFIED
\* login sets the subject's entry to the token it minted and leaves every
\* other entry alone; every token that validated before the login still
\* validates after it.
C38_LatestLoginWins ==
    [][(CallbackStep /\ lastAuth'.success)
          => /\ lastAuth'.identity.sub \in DOMAIN credentialsFile'
             /\ credentialsFile'[lastAuth'.identity.sub].token
                    = lastAuth'.minted[1]
             /\ \A u \in DOMAIN credentialsFile' \ {lastAuth'.identity.sub} :
                    u \in DOMAIN credentialsFile
                        /\ credentialsFile'[u] = credentialsFile[u]
             /\ \A token \in TokenPool :
                    validate_token(tokensFile, token, now)
                        => validate_token(tokensFile', token, now')]_vars

\* The second VERIFIED login of one subject: its entry holds the second
\* token, and the first token still validates.
C38_Witness ==
    /\ lastAuth.op = "callback"
    /\ lastAuth.success
    /\ Cardinality(DOMAIN credentialsFile) = 1
    /\ Len(Records) = 2
    /\ credentialsFile[lastAuth.identity.sub].token = Records[2].token
    /\ validate_token(tokensFile, Records[1].token, now)
    /\ validate_token(tokensFile, Records[2].token, now)

(* --------------------- deployment claims, continued -------------------- *)

\* C36: an invocation whose deployment attempt raises to the caller leaves
\* the attributes of func as they were, with no deployed flag, no URL and no
\* handle, so that get_url raises; and the invocation after one that raised
\* makes a deployment attempt again.
C36_RaisedAttemptLeavesNoState ==
    [][/\ (lastCall'.raised /\ lastCall'.attempted /\ wrapper_call)
            => /\ attrs' = attrs
               /\ ~attrs'.has_deployed
               /\ ~attrs'.has_url
               /\ ~attrs'.has_modal_func
               /\ get_url(attrs').raised
       /\ (lastCall.done /\ lastCall.raised /\ wrapper_call)
            => lastCall'.attempted]_vars

\* The second invocation in a row whose attempt raised, after a get_url
\* that raised.
C36_Witness ==
    /\ lastCall.done /\ lastCall.raised
    /\ calls.steps.attempt = 2
    /\ attrs = NoAttrs
    /\ lastGet.done /\ lastGet.raised

(* -------------------- configuration claims, continued ------------------ *)

\* C35: a decoration that follows a FC.configure call that returned leaves
\* the token and the memory that call was given as the configured values.
C35_DecorationKeepsConfigured ==
    [][(function_decoration /\ lastConfig.op = "configure"
            /\ lastConfig.raised = "none")
          => /\ Truthy(lastConfig.token) => cfg'.token = lastConfig.token
             /\ Given(lastConfig.kwargs.memory)
                    => cfg'.memory = lastConfig.kwargs.memory[1]]_vars

\* The token store has no record that makes this token valid now: none
\* with this token value, or only revoked or expired ones.
C34_Rejected(token) ==
    \A i \in 1..Len(Records) :
        Records[i].token = token
            => ~Records[i].active \/ Records[i].expires_at <= now

\* C34: FC.configure(token=t, validate_token=True) with a token the store
\* has no valid record for raises ValueError, and t is not the configured
\* token afterwards unless it was before the call.
C34_RejectedTokenNotInstalled ==
    [][(/\ lastConfig'.op = "configure"
        /\ Truthy(lastConfig'.token)
        /\ lastConfig'.kwargs.validate_token = <<TRUE>>
        /\ C34_Rejected(lastConfig'.token)
        /\ configure_token_call)
          => /\ lastConfig'.raised = "ValueError"
             /\ cfg'.token = lastConfig'.token => cfg.token = lastConfig'.token]_vars

\* A rejected call with a token whose record is there and active, but
\* expired, after which the token of the environment is configured.
C34_Witness ==
    /\ lastConfig.op = "configure"
    /\ lastConfig.token = "user_tok"
    /\ lastConfig.kwargs.validate_token = <<TRUE>>
    /\ lastConfig.raised = "ValueError"
    /\ Len(Records) = 1
    /\ Records[1].token = "user_tok"
    /\ Records[1].active
    /\ Records[1].expires_at <= now
    /\ cfg.token = "env_tok"

(* ----------------------- deployer claims, continued -------------------- *)

\* C31: deploy_function returns in every case; when the computation of the
\* path or the URL fails it returns the URL of playground.function-<hash>
\* under the stub name, and when the URL cannot be attached it returns the
\* URL it computed for the function.
C31_DeployNeverRaises ==
    lastDeploy.done
        => /\ lastDeploy.result.raised = "none"
           /\ lastDeploy.url_error
                => lastDeploy.result.url
                      = <<"https://", stub_name, "--", "playground", "-",
                          "function", "-", lastDeploy.rnd, ".modal.run">>
           /\ (~lastDeploy.url_error /\ lastDeploy.attach # "none")
                => /\ lastDeploy.result.url
                        = function_to_endpoint(stub_name,
                              generate_url_path(
                                  IF lastDeploy.handle.has_wrapped THEN func
                                  ELSE lastDeploy.handle, lastDeploy.rnd))
                   /\ ~lastDeploy.result.on_original
                   /\ lastDeploy.result.handle = lastDeploy.handle

\* A call whose URL computation failed, and that returned.
C31_Witness ==
    /\ lastDeploy.done
    /\ lastDeploy.url_error
    /\ lastDeploy.attach = "TypeError"
    /\ lastDeploy.result.raised = "none"
    /\ lastDeploy.result.url # <<>>

(* --------------------------- web application claims ------------------- *)

\* C33: after a token refresh of a logged-in user the token the user had
\* does not validate, the token the refresh returned validates, the entry of
\* the user in the credentials file holds the returned token, and the
\* record of the old token is still in the store, inactive.
C33_RefreshReplacesToken ==
    [][(lastRefresh' # lastRefresh /\ refresh_token_call)
          => /\ ~validate_token(tokensFile', lastRefresh'.old, now')
             /\ validate_token(tokensFile', lastRefresh'.token, now')
             /\ credentialsFile'[lastRefresh'.user_id].token = lastRefresh'.token
             /\ lastRefresh'.token # lastRefresh'.old
             /\ \E i \in 1..Len(_load_tokens(tokensFile')) :
                    /\ _load_tokens(tokensFile')[i].token = lastRefresh'.old
                    /\ ~_load_tokens(tokensFile')[i].active]_vars

\* A refresh of a user whose old token validated until then: the store
\* holds the old record, inactive, and the new one.
C33_Witness ==
    /\ lastRefresh.done
    /\ lastRefresh.user_id \in DOMAIN credentialsFile
    /\ credentialsFile[lastRefresh.user_id].token = lastRefresh.token
    /\ Len(Records) = 2
    /\ Records[1].token = lastRefresh.old
    /\ ~Records[1].active
    /\ Records[1].expires_at > now
    /\ Records[2].token = lastRefresh.token
    /\ validate_token(tokensFile, lastRefresh.token, now)

====
